---- MODULE Spec2Model ----
(***************************************************************************)
(* Percas: gossip membership (crates/gossip) and consistent-hash routing   *)
(* (crates/cluster) as state machines.                                     *)
(*                                                                         *)
(*   SpecMember   : Membership::update_member called with arbitrary        *)
(*                  MemberStates (crates/gossip/src/member.rs).            *)
(*   SpecGossip   : one node's GossipState under inbound messages, failed  *)
(*                  pings and syncs, the harvest and the ring rebuild      *)
(*                  (crates/gossip/src/gossip.rs). Each handler is one     *)
(*                  step: load, clone, mutate and store are not            *)
(*                  interleaved with other writers here.                   *)
(*   SpecMessages : SpecGossip restricted to handle_message.               *)
(*   SpecRoute    : Proxy::route over any ring and membership snapshot     *)
(*                  (crates/cluster/src/proxy.rs; the ring code of         *)
(*                  crates/cluster/src/ring.rs is that of                  *)
(*                  crates/gossip/src/ring.rs up to the hash function).    *)
(*   SpecProxy    : ClusterProxyEndpoint::call for GET, PUT, DELETE over   *)
(*                  the local engine (crates/server/src/middleware.rs).    *)
(*   SpecRateLimit: concurrent requests through RateLimitEndpoint::call    *)
(*                  and its two semaphores.                                *)
(*   SpecRing     : a HashRing built by add_node in any order and read by  *)
(*                  lookup, lookup_until and list_vnodes                   *)
(*                  (crates/gossip/src/ring.rs).                           *)
(*   SpecStart    : GossipState::start, from the stored local node through *)
(*                  fast_bootstrap to the spawned loops.                   *)
(*   SpecRestart  : SpecMessages with restarts of the process              *)
(*                  (cmd/percas/src/start.rs).                             *)
(*   SpecFailure  : peers that answer, stop answering and are harvested.   *)
(*   SpecLoops    : the four loop tasks of GossipState::start, turn by     *)
(*                  turn, and the shutdown signal; SpecLoopsFair adds the  *)
(*                  weak fairness of the shutdown branch of each task.     *)
(*   SpecCache    : get, put and delete of FoyerEngine over the memory and *)
(*                  disk tiers of the HybridCache it configures            *)
(*                  (crates/core/src/engine.rs).                           *)
(*   SpecForward  : one client request handed between two nodes whose      *)
(*                  membership snapshots may disagree.                     *)
(*   SpecWriters  : two writers of the membership snapshot, interleaved    *)
(*                  at their load and store.                               *)
(*   SpecSync     : one Sync handled by the gossip crate (one store) or by *)
(*                  the cluster crate (a write lock per entry,             *)
(*                  crates/cluster/src/gossip.rs) while readers load the   *)
(*                  membership.                                            *)
(*   SpecMessagesFair : SpecMessages with Syncs and Pings handled on and   *)
(*                  on (weak fairness).                                    *)
(*   SpecCluster  : two nodes that stay up and a crashed one, each with    *)
(*                  its own membership and its ping, anti-entropy and      *)
(*                  harvest loops; SpecClusterFair adds the fairness of    *)
(*                  the loops.                                             *)
(*                                                                         *)
(* Timestamps are clock readings 0..MaxClock; a key is given by its        *)
(* hash_key digest, and the hash of a (node, vnode) pair by the table      *)
(* vnode_hash, which SpecRoute draws from all tables.                      *)
(***************************************************************************)
EXTENDS Integers, Sequences, FiniteSets, TLC

\* ------------------------------------------------------------------ bounds
\* largest incarnation number
MaxInc == 1
\* largest heartbeat
MaxTime == 1
\* virtual nodes per ring member (HashRing::new(vnodes); the default of 64
\* is scaled down)
VNodes == 1

\* ------------------------------------------------------------- data model
\* node ids (Uuid, totally ordered); LocalId is the node the model runs on
NodeIds == {1, 2, 3}
LocalId == 1
\* the node ids of the membership specifications: the local node and a peer
GossipIds == {1, 2}
\* advertised data addresses
Addrs == {"a", "b"}
\* the data address each node advertises in SpecRoute
AddrOf == [n \in NodeIds |-> IF n = 1 THEN "a" ELSE IF n = 2 THEN "b" ELSE "c"]
\* the slots of the hash ring (u32 digests, scaled down)
HashSlots == {0, 1, 2}

\* enum MemberStatus
MemberStatus == {"Alive", "Dead"}

\* struct NodeInfo (cluster_id and the control address play no part in the
\* merge rules and are left out)
NodeInfo == [node_id : GossipIds, incarnation : 0..MaxInc, advertise_addr : Addrs]

\* struct MemberState
MemberState == [info : NodeInfo, status : MemberStatus, heartbeat : 0..MaxTime]

\* Membership::default(): the empty BTreeMap
EmptyMembership == [n \in {} |-> 0]

Max(a, b) == IF a >= b THEN a ELSE b

\* BTreeMap insert / overwrite of one key
MapPut(ms, id, v) == [n \in (DOMAIN ms) \cup {id} |-> IF n = id THEN v ELSE ms[n]]

\* BTreeMap::remove
remove_member(ms, id) == [n \in (DOMAIN ms) \ {id} |-> ms[n]]

\* Membership::is_dead
is_dead(ms, id) == id \in DOMAIN ms /\ ms[id].status = "Dead"

\* MemberStatus::downgrade_to: (Alive, Alive) keeps self, every other pair
\* assigns other to self
downgrade_to(self, other) ==
    IF self = "Alive" /\ other = "Alive" THEN self ELSE other

\* line 85: *current = member
replace_keep_heartbeat(current, member) ==
    [member EXCEPT !.heartbeat = Max(current.heartbeat, member.heartbeat)]
replace_entry(current, member) == member

\* line 99: current.heartbeat.max(member.heartbeat)
merge_heartbeat_incoming(cur_hb, in_hb) == in_hb
merge_heartbeat(cur_hb, in_hb) == Max(cur_hb, in_hb)

\* lines 103-113: the status stored at equal incarnation
merge_status(current, member, prev_heartbeat) ==
    IF member.heartbeat >= prev_heartbeat /\ member.status # current.status
    THEN member.status
    ELSE downgrade_to(current.status, member.status)

\* line 116: the value returned at equal incarnation
merge_changed_status_only(new, prev_status, prev_heartbeat) ==
    new.status # prev_status
merge_changed(new, prev_status, prev_heartbeat) ==
    new.status # prev_status \/ new.heartbeat # prev_heartbeat

\* Membership::update_member: the map after the call and the returned bool
update_member_replace_on_differ(ms, member) ==
    LET id == member.info.node_id IN
    IF id \in DOMAIN ms
    THEN LET current == ms[id] IN
         IF current.info.incarnation # member.info.incarnation
         THEN [members |-> MapPut(ms, id, replace_entry(current, member)),
               changed |-> TRUE]
         ELSE LET prev_status == current.status
                  prev_heartbeat == current.heartbeat
                  hb == merge_heartbeat(current.heartbeat, member.heartbeat)
                  st == merge_status(current, member, prev_heartbeat)
                  new == [current EXCEPT !.heartbeat = hb, !.status = st]
              IN [members |-> MapPut(ms, id, new),
                  changed |-> merge_changed(new, prev_status, prev_heartbeat)]
    ELSE [members |-> MapPut(ms, id, member), changed |-> TRUE]
update_member(ms, member) ==
    LET id == member.info.node_id IN
    IF id \in DOMAIN ms
    THEN LET current == ms[id] IN
         IF current.info.incarnation < member.info.incarnation
         THEN [members |-> MapPut(ms, id, replace_entry(current, member)),
               changed |-> TRUE]
         ELSE IF current.info.incarnation > member.info.incarnation
         THEN [members |-> ms, changed |-> FALSE]
         ELSE LET prev_status == current.status
                  prev_heartbeat == current.heartbeat
                  hb == merge_heartbeat(current.heartbeat, member.heartbeat)
                  st == merge_status(current, member, prev_heartbeat)
                  new == [current EXCEPT !.heartbeat = hb, !.status = st]
              IN [members |-> MapPut(ms, id, new),
                  changed |-> merge_changed(new, prev_status, prev_heartbeat)]
    ELSE [members |-> MapPut(ms, id, member), changed |-> TRUE]

\* ------------------------------------------------------------------ state
VARIABLES
    members,       \* GossipState.membership: node_id -> MemberState
    call,          \* the last update_member call: map before, argument, result;
                   \* in SpecGossip, whether the last step rebuilt the ring
    current_node,  \* GossipState.current_node: the local NodeInfo
    now,           \* the clock read by Timestamp::now()
    ring,          \* GossipState.ring: HashRing.nodes, slot -> set of node_id
    seen_inc,      \* per node_id, the highest incarnation the map held so far
    vnode_hash,    \* the hash function: (node_id, vnode index) -> slot
    routed,        \* the last Proxy::route call: key digest and result
    engine,        \* the local cache engine: the keys (digests) it holds
    handled,       \* the last request ClusterProxyEndpoint::call handled
    pc,            \* per request, its position in RateLimitEndpoint::call
    wait_permit,   \* the permits left in RateLimitEndpoint.wait_permit
    run_permit,    \* the permits left in RateLimitEndpoint.run_permit
    arrival,       \* the last request that entered RateLimitEndpoint::call
    added,         \* the nodes handed to HashRing::add_node so far
    looked,        \* the last lookup, lookup_until or list_vnodes call
    node_file,     \* node.json: the persisted node_id and incarnation
    boot,          \* the position of GossipState::start
    tasks,         \* per gossip loop, whether its task runs, stopped or panicked
    shutdown,      \* whether the shared shutdown signal has fired
    memory,        \* the memory tier of the hybrid cache: key -> value
    disk,          \* the disk tier of the hybrid cache: key -> value
    cache_op,      \* the last get, put or delete on the FoyerEngine
    views,         \* per node of a cluster: the ring and the membership it holds
    forward,       \* a client request handed from node to node
    writers,       \* per concurrent writer of the membership: its position and
                   \* the clone it mutates
    inflight,      \* per loop that sends: the peer contacted and the attempts
                   \* that failed so far
    history        \* per key: the value of the last put unless deleted since,
                   \* whether the key was evicted since, whether it ever was

\* the state of the request dispatch layer and of the ring under construction
server_vars == <<engine, handled, pc, wait_permit, run_permit, arrival, added, looked>>

\* the state of the node's start, of its gossip loop tasks and of its cache
node_vars == <<boot, tasks, shutdown, memory, disk, cache_op, history, inflight,
               views, forward, writers>>

vars == <<members, call, current_node, now, ring, seen_inc, vnode_hash, routed,
          server_vars, node_file, node_vars>>

NoCall == [op |-> "none"]
\* the last step ended with GossipState::rebuild_ring
RingRebuilt == [op |-> "rebuild_ring"]
NoRoute == [op |-> "none"]
NoRequest == [op |-> "none"]
NoLookup == [op |-> "none"]

\* RateLimitMiddleware::new: run_limit is num_cpus * 100 (scaled down to one
\* permit), wait_limit is run_limit * 5
run_limit == 1
wait_limit == run_limit * 5

\* line 201: wait_permit: Arc::new(Semaphore::new(wait_limit))
new_wait_permit_swapped == run_limit
new_wait_permit == wait_limit

\* line 202: run_permit: Arc::new(Semaphore::new(run_limit))
new_run_permit_swapped == wait_limit
new_run_permit == run_limit

\* the requests that may be in RateLimitEndpoint::call at the same time: one
\* more than wait_permit admits
Requests == 1..(run_limit * 5 + 1)

\* the four loops GossipState::start spawns
Loops == {"ping", "anti_entropy", "rebuild_ring", "remove_dead_members"}

\* GossipState::start has returned Ok
Started == [phase |-> "started"]

\* an empty cache tier
EmptyTier == [k \in {} |-> 0]

\* the loops that send a message each turn, none of them sending
SendLoops == {"ping", "anti_entropy"}
NoneInFlight == [l \in SendLoops |-> {}]

\* no cluster views and no concurrent writers
NoViews == [n \in {} |-> 0]
NoWriters == [w \in {} |-> 0]

\* the keys and values of the cache specification
CacheKeys == {"k1", "k2"}
CacheValues == {"v1", "v2"}

\* no key was ever put
NoHistory == [k \in CacheKeys |-> [last |-> {}, evicted |-> FALSE, spilled |-> FALSE]]

\* the dispatch layer after start_server and a ring after HashRing::new; the
\* node file as run_gossip_proxy persisted it, the loops spawned, the cache
\* empty
InitServer ==
    /\ engine = {}
    /\ handled = NoRequest
    /\ pc = [r \in Requests |-> "idle"]
    /\ wait_permit = new_wait_permit
    /\ run_permit = new_run_permit
    /\ arrival = NoRequest
    /\ added = {}
    /\ looked = NoLookup
    /\ node_file = [node_id |-> LocalId, incarnation |-> current_node.incarnation]
    /\ boot = Started
    /\ tasks = [l \in Loops |-> "running"]
    /\ shutdown = FALSE
    /\ memory = EmptyTier
    /\ disk = EmptyTier
    /\ cache_op = NoRequest
    /\ history = NoHistory
    /\ inflight = NoneInFlight
    /\ views = NoViews
    /\ forward = NoRequest
    /\ writers = NoWriters

\* ------------------------------------------------------------- hash ring
\* HashRing::default(): no slot is occupied
EmptyRing == [s \in {} |-> {}]

\* HashRing::hash_node
hash_node(node, vnode) == vnode_hash[<<node, vnode>>]

\* one iteration of add_node's loop: nodes.entry(hash).or_default().insert(node)
insert_vnode_overwrite(nodes, node, vnode) ==
    LET hash == hash_node(node, vnode) IN
    [s \in (DOMAIN nodes) \cup {hash} |-> IF s = hash THEN {node} ELSE nodes[s]]
insert_vnode(nodes, node, vnode) ==
    LET hash == hash_node(node, vnode) IN
    [s \in (DOMAIN nodes) \cup {hash} |->
        IF s = hash
        THEN (IF s \in DOMAIN nodes THEN nodes[s] ELSE {}) \cup {node}
        ELSE nodes[s]]

\* HashRing::add_node: for i in 0..vnodes
RECURSIVE add_vnodes(_, _, _)
add_vnodes(nodes, node, i) ==
    IF i >= VNodes THEN nodes
    ELSE add_vnodes(insert_vnode(nodes, node, i), node, i + 1)
add_node(nodes, node) == add_vnodes(nodes, node, 0)

\* HashRing::from(iter): add_node for every node of the iterator
RECURSIVE ring_from(_)
ring_from(ids) ==
    IF ids = {} THEN EmptyRing
    ELSE LET n == CHOOSE x \in ids : \A y \in ids : x >= y
         IN add_node(ring_from(ids \ {n}), n)

\* the node ids on a ring
RingNodes(nodes) == UNION {nodes[s] : s \in DOMAIN nodes}

SetMin(S) == CHOOSE x \in S : \A y \in S : x <= y

\* nodes.range(..).find_map(|(_, node)| node.iter().find(|v| predicate(*v))):
\* the smallest satisfying node of the lowest slot of the range that holds
\* one. The predicate is given by the set of nodes it accepts; an Option is
\* a set of at most one element
find_in_range(nodes, slots, accepted) ==
    LET hit == {s \in slots \cap DOMAIN nodes : nodes[s] \cap accepted # {}} IN
    IF hit = {} THEN {}
    ELSE {SetMin(nodes[SetMin(hit)] \cap accepted)}

\* nodes.range(..).next().and_then(|(_, node)| node.iter().next().cloned()):
\* the smallest node of the lowest occupied slot of the range
first_in_range(nodes, slots) ==
    LET occupied == slots \cap DOMAIN nodes IN
    IF occupied = {} THEN {}
    ELSE IF nodes[SetMin(occupied)] = {} THEN {}
    ELSE {SetMin(nodes[SetMin(occupied)])}

\* HashRing::lookup, for a key whose hash_key is `hash`
lookup_modulo(nodes, hash) ==
    LET ids == RingNodes(nodes) IN
    IF ids = {} THEN {}
    ELSE {x \in ids : Cardinality({y \in ids : y < x}) = hash % Cardinality(ids)}
lookup_no_wrap(nodes, hash) ==
    first_in_range(nodes, {s \in HashSlots : s >= hash})
lookup(nodes, hash) ==
    LET first == first_in_range(nodes, {s \in HashSlots : s >= hash}) IN
    IF first # {} THEN first
    ELSE first_in_range(nodes, HashSlots)

\* HashRing::list_vnodes: (0..vnodes).map(|i| hash_node(node, i)).collect()
list_vnodes(node) == [i \in 1..VNodes |-> hash_node(node, i - 1)]

\* HashRing::lookup_until, for a key whose hash_key is `hash`
lookup_until_no_wrap(nodes, hash, accepted) ==
    find_in_range(nodes, {s \in HashSlots : s >= hash}, accepted)
lookup_until(nodes, hash, accepted) ==
    LET first == find_in_range(nodes, {s \in HashSlots : s >= hash}, accepted) IN
    IF first # {} THEN first
    ELSE find_in_range(nodes, {s \in HashSlots : s <= hash}, accepted)

\* ------------------------------------------------------------- SpecMember
InitMember ==
    /\ members = EmptyMembership
    /\ call = NoCall
    /\ current_node = [node_id |-> LocalId, incarnation |-> 0, advertise_addr |-> "a"]
    /\ now = 0
    /\ ring = EmptyRing
    /\ seen_inc = [n \in GossipIds |-> 0]
    /\ vnode_hash = [p \in NodeIds \X (0..(VNodes - 1)) |-> 0]
    /\ routed = NoRoute
    /\ InitServer

UpdateMember ==
    /\ \E m \in MemberState :
        LET r == update_member(members, m) IN
        /\ members' = r.members
        /\ call' = [op |-> "update_member", pre |-> members,
                    member |-> m, ret |-> r.changed]
    /\ UNCHANGED <<current_node, now, ring, seen_inc, vnode_hash, routed, server_vars, node_file, node_vars>>

NextMember == UpdateMember

SpecMember == InitMember /\ [][NextMember]_vars

\* ------------------------------------------------------------- SpecGossip
\* DEFAULT_MEMBER_DEADLINE (30 s); one clock unit of the model is 30 s
DEFAULT_MEMBER_DEADLINE == 1
\* the last reading of the clock: late enough for every heartbeat a message
\* carries to pass the deadline
MaxClock == 3
\* the incarnations and heartbeats that inbound messages carry
GossipIncarnations == {0, 1}
GossipHeartbeats == {0, 1}
\* the local incarnation stops advancing one above GossipIncarnations
MaxLocalInc == 2

\* the MemberState built from a NodeInfo by the Ping and Ack handlers, by the
\* self-refresh and by mark_dead
member_state(info, status, heartbeat) ==
    [info |-> info, status |-> status, heartbeat |-> heartbeat]

\* the NodeInfos and lists of MemberStates that messages carry: a Sync lists
\* at most one MemberState per node_id, in node_id order, as
\* Membership::into_members().into_values() produces them
GossipNodeInfo ==
    [node_id : GossipIds, incarnation : GossipIncarnations, advertise_addr : {"a"}]
GossipMemberState(n) ==
    {m \in [info : GossipNodeInfo, status : MemberStatus, heartbeat : GossipHeartbeats] :
        m.info.node_id = n}
SyncEntry(n) == {<<>>} \cup {<<m>> : m \in GossipMemberState(n)}
SyncLists == {a \o b : a \in SyncEntry(1), b \in SyncEntry(2)}

\* for member in members { membership.update_member(member) }
RECURSIVE update_members(_, _)
update_members(ms, list) ==
    IF list = <<>> THEN ms
    ELSE CHOOSE merged \in {update_members(next, Tail(list)) :
                                next \in {update_member(ms, Head(list)).members}} : TRUE

\* handle_message, Ping and Ack arms: the membership stored
handle_info(ms, info, t) ==
    update_member(ms, member_state(info, "Alive", t)).members

\* handle_message, Sync arm: merge the list, then "ensure the current node is
\* alive", then store
handle_sync(ms, list, cur, t) ==
    CHOOSE stored \in {update_member(merged, member_state(cur, "Alive", t)).members :
                          merged \in {update_members(ms, list)}} : TRUE

\* NodeInfo::persist: node.json takes the node_id and the incarnation
persist(info) == [node_id |-> info.node_id, incarnation |-> info.incarnation]

\* the end of handle_message: advance_incarnation when the stored membership
\* holds the local node as Dead
self_defense_unchecked(ms, cur) == [cur EXCEPT !.incarnation = @ + 1]
self_defense(ms, cur) ==
    IF is_dead(ms, cur.node_id)
    THEN [cur EXCEPT !.incarnation = @ + 1]
    ELSE cur

\* GossipState::mark_dead: Dead at the heartbeat last seen, through the merge
\* rules; nothing when the peer is no longer in the map
mark_dead_at_now(ms, peer) ==
    IF peer.node_id \in DOMAIN ms
    THEN update_member(ms, member_state(peer, "Dead", now)).members
    ELSE ms
mark_dead(ms, peer) ==
    IF peer.node_id \in DOMAIN ms
    THEN update_member(ms, member_state(peer, "Dead", ms[peer.node_id].heartbeat)).members
    ELSE ms

\* GossipState::remove_dead_members: the node ids removed
dead_members(ms, t) ==
    {n \in DOMAIN ms :
        ms[n].status = "Dead" /\ ms[n].heartbeat + DEFAULT_MEMBER_DEADLINE < t}

\* for dead_member in &dead_members { members.remove_member(..) }
remove_members(ms, ids) == [n \in (DOMAIN ms) \ ids |-> ms[n]]

\* GossipState::rebuild_ring: the ring built from the keys of a clone of the
\* membership in which the local node was refreshed; the clone is dropped
rebuild_ring(ms, cur, t) ==
    ring_from(DOMAIN update_member(ms, member_state(cur, "Alive", t)).members)

\* the highest incarnation held for each node_id up to the current state
note_incarnations(seen, ms) ==
    [n \in DOMAIN seen |->
        IF n \in DOMAIN ms THEN Max(seen[n], ms[n].info.incarnation) ELSE seen[n]]

\* the hash function of SpecGossip
SampleHash == [p \in NodeIds \X (0..(VNodes - 1)) |-> (p[1] + p[2]) % Cardinality(HashSlots)]

\* GossipState::start has stored the local node as Alive; the incarnation is
\* that of a first start or of a restart
InitGossip ==
    /\ now = 0
    /\ current_node \in [node_id : {LocalId}, incarnation : {0, 1}, advertise_addr : {"a"}]
    /\ members = MapPut(EmptyMembership, LocalId, member_state(current_node, "Alive", now))
    /\ ring = EmptyRing
    /\ seen_inc = [n \in GossipIds |-> 0]
    /\ vnode_hash = SampleHash
    /\ call = NoCall
    /\ routed = NoRoute
    /\ InitServer

\* the clock advances
Tick ==
    /\ now < MaxClock
    /\ now' = now + 1
    /\ call' = NoCall
    /\ UNCHANGED <<members, current_node, ring, seen_inc, vnode_hash, routed, server_vars, node_file, node_vars>>

\* what every handle_message leaves behind, given the membership it stored;
\* advance_incarnation persists the NodeInfo it advanced
AfterMessage(ms) ==
    /\ self_defense(ms, current_node).incarnation <= MaxLocalInc
    /\ members' = ms
    /\ current_node' = self_defense(ms, current_node)
    /\ seen_inc' = note_incarnations(seen_inc, members)
    /\ call' = [op |-> "handle_message", incarnation |-> current_node.incarnation]
    /\ node_file' = IF is_dead(ms, current_node.node_id)
                    THEN persist(self_defense(ms, current_node))
                    ELSE node_file
    /\ UNCHANGED <<now, ring, vnode_hash, routed, server_vars, node_vars>>

\* handle_message(Ping(info))
HandlePing == \E info \in GossipNodeInfo : AfterMessage(handle_info(members, info, now))

\* handle_message(Ack(info))
HandleAck == \E info \in GossipNodeInfo : AfterMessage(handle_info(members, info, now))

\* handle_message(Sync { members })
HandleSync ==
    \E list \in SyncLists : AfterMessage(handle_sync(members, list, current_node, now))

\* a Ping or Sync to `peer`, a NodeInfo read from an earlier snapshot of the
\* membership, exhausted its retries: mark_dead(peer)
MarkDead ==
    /\ \E peer \in GossipNodeInfo :
        /\ members' = mark_dead(members, peer)
        /\ call' = [op |-> "mark_dead", peer |-> peer, pre |-> members]
    /\ seen_inc' = note_incarnations(seen_inc, members)
    /\ UNCHANGED <<current_node, now, ring, vnode_hash, routed, server_vars, node_file, node_vars>>

\* one turn of the harvest loop: remove_dead_members, and rebuild_ring when
\* something was removed
Harvest ==
    LET dead == dead_members(members, now)
        kept == remove_members(members, dead) IN
    /\ members' = kept
    /\ ring' = IF dead # {} THEN rebuild_ring(kept, current_node, now) ELSE ring
    /\ seen_inc' = note_incarnations(seen_inc, members)
    /\ call' = IF dead # {}
               THEN [op |-> "rebuild_ring", harvest |-> members]
               ELSE [op |-> "remove_dead_members", harvest |-> members]
    /\ UNCHANGED <<current_node, now, vnode_hash, routed, server_vars, node_file, node_vars>>

\* one turn of the ring-rebuild loop
RebuildRing ==
    /\ ring' = rebuild_ring(members, current_node, now)
    /\ call' = RingRebuilt
    /\ UNCHANGED <<members, current_node, now, seen_inc, vnode_hash, routed, server_vars, node_file, node_vars>>

NextGossip ==
    \/ Tick
    \/ HandlePing
    \/ HandleAck
    \/ HandleSync
    \/ MarkDead
    \/ Harvest
    \/ RebuildRing

SpecGossip == InitGossip /\ [][NextGossip]_vars

\* inbound messages only
NextMessages ==
    \/ Tick
    \/ HandlePing
    \/ HandleAck
    \/ HandleSync

SpecMessages == InitGossip /\ [][NextMessages]_vars

\* gossip messages keep being handled: a Sync that changes the node's state
\* is handled in the end, and so is a Ping
SpecMessagesFair == SpecMessages /\ WF_vars(HandleSync) /\ WF_vars(HandlePing)

\* peers answer, stop answering and are harvested
NextFailure ==
    \/ Tick
    \/ HandleAck
    \/ MarkDead
    \/ Harvest
    \/ RebuildRing

SpecFailure == InitGossip /\ [][NextFailure]_vars

\* -------------------------------------------------------------- SpecRoute
\* enum RouteDest
Local == [kind |-> "Local"]
RemoteAddr(addr) == [kind |-> "RemoteAddr", addr |-> addr]

\* the predicate Proxy::route hands to lookup_until
route_alive(ms, id) == id \in DOMAIN ms /\ ms[id].status = "Alive"

\* Proxy::route, for a key whose hash_key is `hash`
route_self_alive(nodes, ms, cur, hash) ==
    LET found == lookup_until(nodes, hash,
                              {id \in NodeIds : route_alive(ms, id) \/ id = cur.node_id}) IN
    IF found # {}
    THEN LET id == CHOOSE x \in found : TRUE IN
         IF id = cur.node_id \/ id \notin DOMAIN ms
         THEN Local
         ELSE RemoteAddr(ms[id].info.advertise_addr)
    ELSE Local
route(nodes, ms, cur, hash) ==
    LET found == lookup_until(nodes, hash, {id \in NodeIds : route_alive(ms, id)}) IN
    IF found # {}
    THEN LET id == CHOOSE x \in found : TRUE IN
         IF id \in DOMAIN ms
         THEN IF ms[id].info.node_id = cur.node_id
              THEN Local
              ELSE RemoteAddr(ms[id].info.advertise_addr)
         ELSE Local
    ELSE Local

\* the Membership snapshots route may read: any set of the nodes, each Alive
\* or Dead, stored under its own node_id with the address it advertises
RouteMemberState(n) ==
    {member_state([node_id |-> n, incarnation |-> 0, advertise_addr |-> AddrOf[n]], st, 0) :
        st \in MemberStatus}
RouteMemberships ==
    UNION {{ms \in [D -> UNION {RouteMemberState(n) : n \in D}] :
               \A n \in D : ms[n].info.node_id = n} : D \in SUBSET NodeIds}

\* the node sets a published ring was built from: none before the first
\* rebuild, later always with the local node (rebuild_ring refreshes it first)
RouteRingSets == {{}} \cup {S \in SUBSET NodeIds : LocalId \in S}

\* any hash function, any published ring, any membership snapshot
InitRoute ==
    /\ vnode_hash \in [NodeIds \X (0..(VNodes - 1)) -> HashSlots]
    /\ \E S \in RouteRingSets : ring = ring_from(S)
    /\ members \in RouteMemberships
    /\ current_node = [node_id |-> LocalId, incarnation |-> 0,
                       advertise_addr |-> AddrOf[LocalId]]
    /\ now = 0
    /\ seen_inc = [n \in GossipIds |-> 0]
    /\ call = NoCall
    /\ routed = NoRoute
    /\ InitServer

\* Proxy::route(key) for a key of any digest
Route ==
    /\ \E hash \in HashSlots :
        routed' = [op |-> "route", hash |-> hash,
                   dest |-> route(ring, members, current_node, hash)]
    /\ UNCHANGED <<members, call, current_node, now, ring, seen_inc, vnode_hash, server_vars, node_file, node_vars>>

NextRoute == Route

SpecRoute == InitRoute /\ [][NextRoute]_vars

\* -------------------------------------------------------------- SpecProxy
\* the methods the data route registers: poem::get(get).put(put).delete(delete)
Methods == {"GET", "PUT", "DELETE"}

\* what client.get / client.put / client.delete to the owner may return
RemoteOutcomes(method) ==
    IF method = "GET" THEN {"OkSome", "OkNone", "Err"} ELSE {"Ok", "Err"}

\* a Response and what producing it did to the local engine; no branch of
\* the endpoint sets a Location header
response(status, eng, read, written) ==
    [status |-> status, location |-> {}, engine |-> eng,
     engine_read |-> read, engine_written |-> written]

\* the inner endpoint: the handlers get, put and delete on ctx.engine, for a
\* key of digest `hash`; body_ok is whether body.into_bytes() succeeds
endpoint_call(eng, method, hash, body_ok) ==
    IF method = "GET"
    THEN response(IF hash \in eng THEN 200 ELSE 404, eng, TRUE, FALSE)
    ELSE IF method = "PUT"
    THEN IF body_ok
         THEN response(201, eng \cup {hash}, FALSE, TRUE)
         ELSE response(400, eng, FALSE, FALSE)
    ELSE response(204, eng \ {hash}, FALSE, TRUE)

\* the Err arms of the RemoteAddr branch: log, then self.endpoint.call(req)
remote_failed(eng, method, hash) == endpoint_call(eng, method, hash, TRUE)

\* ClusterProxyEndpoint::call with a proxy: the RemoteAddr branch forwards
\* the request through a client built on the owner's address and answers
\* with what came back; `?` on the body answers the read error (400)
proxy_call(eng, dest, method, hash, body_ok, remote) ==
    IF dest.kind = "Local"
    THEN endpoint_call(eng, method, hash, body_ok)
    ELSE IF method = "GET"
    THEN IF remote = "OkSome" THEN response(200, eng, FALSE, FALSE)
         ELSE IF remote = "OkNone" THEN response(404, eng, FALSE, FALSE)
         ELSE remote_failed(eng, method, hash)
    ELSE IF method = "PUT"
    THEN IF ~body_ok THEN response(400, eng, FALSE, FALSE)
         ELSE IF remote = "Ok" THEN response(201, eng, FALSE, FALSE)
         ELSE remote_failed(eng, method, hash)
    ELSE IF remote = "Ok" THEN response(204, eng, FALSE, FALSE)
         ELSE remote_failed(eng, method, hash)

\* a node with any published ring and membership snapshot and an empty cache
InitProxy ==
    /\ vnode_hash = SampleHash
    /\ \E S \in RouteRingSets : ring = ring_from(S)
    /\ members \in RouteMemberships
    /\ current_node = [node_id |-> LocalId, incarnation |-> 0,
                       advertise_addr |-> AddrOf[LocalId]]
    /\ now = 0
    /\ seen_inc = [n \in GossipIds |-> 0]
    /\ call = NoCall
    /\ routed = NoRoute
    /\ InitServer

\* one GET, PUT or DELETE through ClusterProxyEndpoint::call; the owner's
\* answer is drawn only when the key routes to a remote owner
ProxyCall ==
    \E method \in Methods, hash \in HashSlots, body_ok \in BOOLEAN :
        LET dest == route(ring, members, current_node, hash) IN
        \E remote \in (IF dest.kind = "Local" THEN {"NotAsked"}
                        ELSE RemoteOutcomes(method)) :
            LET r == proxy_call(engine, dest, method, hash, body_ok, remote) IN
            /\ engine' = r.engine
            /\ handled' = [op |-> "call", method |-> method, hash |-> hash,
                           dest |-> dest, remote |-> remote,
                           status |-> r.status, location |-> r.location,
                           engine_read |-> r.engine_read,
                           engine_written |-> r.engine_written]
            /\ UNCHANGED <<members, call, current_node, now, ring, seen_inc,
                           vnode_hash, routed, pc, wait_permit, run_permit,
                           arrival, added, looked, node_file, node_vars>>

NextProxy == ProxyCall

SpecProxy == InitProxy /\ [][NextProxy]_vars

\* ---------------------------------------------------------- SpecRateLimit
\* the requests holding a wait permit: awaiting run_permit or inside the
\* inner endpoint
Queued == {r \in Requests : pc[r] = "queued"}
Running == {r \in Requests : pc[r] = "running"}

\* Semaphore::try_acquire(1) and the readiness of Semaphore::acquire(1)
try_acquire(permits) == permits >= 1

\* what the rate limiter leaves alone
RestOfNode ==
    UNCHANGED <<members, call, current_node, now, ring, seen_inc, vnode_hash,
                routed, engine, handled, added, looked, node_file, node_vars>>

InitRateLimit ==
    /\ members = EmptyMembership
    /\ call = NoCall
    /\ current_node = [node_id |-> LocalId, incarnation |-> 0, advertise_addr |-> "a"]
    /\ now = 0
    /\ ring = EmptyRing
    /\ seen_inc = [n \in GossipIds |-> 0]
    /\ vnode_hash = SampleHash
    /\ routed = NoRoute
    /\ InitServer

\* line 237: a request enters and tries wait_permit without blocking; on
\* failure it answers 429, otherwise it goes on to await run_permit
Arrive(r) ==
    /\ pc[r] = "idle"
    /\ IF try_acquire(wait_permit)
       THEN /\ wait_permit' = wait_permit - 1
            /\ pc' = [pc EXCEPT ![r] = "queued"]
            /\ arrival' = [op |-> "call", in_flight |-> Cardinality(Queued \cup Running),
                           status |-> 0]
       ELSE /\ wait_permit' = wait_permit
            /\ pc' = [pc EXCEPT ![r] = "rejected"]
            /\ arrival' = [op |-> "call", in_flight |-> Cardinality(Queued \cup Running),
                           status |-> 429]
    /\ UNCHANGED <<run_permit>>
    /\ RestOfNode

\* line 242: run_permit.acquire(1).await completes
AcquireRun(r) ==
    /\ pc[r] = "queued"
    /\ try_acquire(run_permit)
    /\ run_permit' = run_permit - 1
    /\ pc' = [pc EXCEPT ![r] = "running"]
    /\ arrival' = NoRequest
    /\ UNCHANGED <<wait_permit>>
    /\ RestOfNode

\* lines 244-248: the inner endpoint returns, with a response or an error;
\* both permits are dropped
Finish(r) ==
    /\ pc[r] = "running"
    /\ run_permit' = run_permit + 1
    /\ wait_permit' = wait_permit + 1
    /\ pc' = [pc EXCEPT ![r] = "idle"]
    /\ arrival' = NoRequest
    /\ RestOfNode

\* the future is dropped while it awaits run_permit (the connection went
\* away): the wait permit is dropped; a request dropped inside the inner
\* endpoint releases both permits, as Finish does
DropQueued(r) ==
    /\ pc[r] = "queued"
    /\ wait_permit' = wait_permit + 1
    /\ pc' = [pc EXCEPT ![r] = "idle"]
    /\ arrival' = NoRequest
    /\ UNCHANGED <<run_permit>>
    /\ RestOfNode

\* lines 238-240: the 429 response has been returned
Rejected(r) ==
    /\ pc[r] = "rejected"
    /\ pc' = [pc EXCEPT ![r] = "idle"]
    /\ arrival' = NoRequest
    /\ UNCHANGED <<wait_permit, run_permit>>
    /\ RestOfNode

NextRateLimit ==
    \/ \E r \in Requests : Arrive(r)
    \/ \E r \in Requests : AcquireRun(r)
    \/ \E r \in Requests : Finish(r)
    \/ \E r \in Requests : DropQueued(r)
    \/ \E r \in Requests : Rejected(r)

SpecRateLimit == InitRateLimit /\ [][NextRateLimit]_vars

\* --------------------------------------------------------------- SpecRing
\* HashRing::new(vnodes) under any hash function
InitRing ==
    /\ vnode_hash \in [NodeIds \X (0..(VNodes - 1)) -> HashSlots]
    /\ ring = EmptyRing
    /\ members = EmptyMembership
    /\ call = NoCall
    /\ current_node = [node_id |-> LocalId, incarnation |-> 0, advertise_addr |-> "a"]
    /\ now = 0
    /\ seen_inc = [n \in GossipIds |-> 0]
    /\ routed = NoRoute
    /\ InitServer

\* what the ring operations leave alone
RestOfRing ==
    UNCHANGED <<members, call, current_node, now, seen_inc, vnode_hash, routed,
                engine, handled, pc, wait_permit, run_permit, arrival, node_file,
                node_vars>>

\* ring.add_node(node), for a new node or one added before
AddNode ==
    /\ \E node \in NodeIds :
        /\ ring' = add_node(ring, node)
        /\ added' = added \cup {node}
        /\ looked' = [op |-> "add_node", node |-> node, again |-> node \in added]
    /\ RestOfRing

\* ring.lookup(key)
Lookup ==
    /\ \E hash \in HashSlots :
        looked' = [op |-> "lookup", hash |-> hash, ret |-> lookup(ring, hash)]
    /\ UNCHANGED <<ring, added>>
    /\ RestOfRing

\* ring.lookup_until(key, predicate), the predicate given by the nodes it
\* accepts
LookupUntil ==
    /\ \E hash \in HashSlots, accepted \in SUBSET NodeIds :
        looked' = [op |-> "lookup_until", hash |-> hash, accepted |-> accepted,
                   ret |-> lookup_until(ring, hash, accepted)]
    /\ UNCHANGED <<ring, added>>
    /\ RestOfRing

\* ring.list_vnodes(node), for any node id
ListVnodes ==
    /\ \E node \in NodeIds :
        looked' = [op |-> "list_vnodes", node |-> node, ret |-> list_vnodes(node)]
    /\ UNCHANGED <<ring, added>>
    /\ RestOfRing

NextRing ==
    \/ AddNode
    \/ Lookup
    \/ LookupUntil
    \/ ListVnodes

SpecRing == InitRing /\ [][NextRing]_vars

\* -------------------------------------------------------------- SpecStart
\* the most initial peers configured
MaxPeers == 2

\* GossipState::start is at `phase` with `left` initial peers still to be
\* contacted in it; answered records whether any peer exchange succeeded
boot_at(phase, peers, left, answered) ==
    [phase |-> phase, peers |-> peers, left |-> left, answered |-> answered]

\* the next position of fast_bootstrap after one peer of a for loop
boot_next(b, answered) ==
    IF b.left > 1 THEN boot_at(b.phase, b.peers, b.left - 1, answered)
    ELSE IF b.phase = "ping" THEN boot_at("sync", b.peers, b.peers, answered)
    ELSE boot_at("rebuild", b.peers, 0, answered)

\* line 118: the check that makes start bail out
bootstrap_failed(ms) == DOMAIN ms = {}

\* what the steps of start leave alone
RestOfStart ==
    UNCHANGED <<vnode_hash, routed, server_vars, shutdown, memory, disk, cache_op,
                history, inflight, views, forward, writers>>

\* GossipState::new with any number of initial peers, after run_gossip_proxy
\* persisted the NodeInfo
InitStart ==
    /\ now = 0
    /\ current_node \in [node_id : {LocalId}, incarnation : {0, 1}, advertise_addr : {"a"}]
    /\ members = EmptyMembership
    /\ ring = EmptyRing
    /\ seen_inc = [n \in GossipIds |-> 0]
    /\ vnode_hash = SampleHash
    /\ call = NoCall
    /\ routed = NoRoute
    /\ engine = {}
    /\ handled = NoRequest
    /\ pc = [r \in Requests |-> "idle"]
    /\ wait_permit = new_wait_permit
    /\ run_permit = new_run_permit
    /\ arrival = NoRequest
    /\ added = {}
    /\ looked = NoLookup
    /\ node_file = persist(current_node)
    /\ \E peers \in 0..MaxPeers : boot = boot_at("new", peers, 0, FALSE)
    /\ tasks = [l \in Loops |-> "unspawned"]
    /\ shutdown = FALSE
    /\ memory = EmptyTier
    /\ disk = EmptyTier
    /\ cache_op = NoRequest
    /\ history = NoHistory
    /\ inflight = NoneInFlight
    /\ views = NoViews
    /\ forward = NoRequest
    /\ writers = NoWriters

\* the clock advances while start runs
StartTick ==
    /\ boot.phase \in {"new", "ping", "sync", "rebuild"}
    /\ now < MaxClock
    /\ now' = now + 1
    /\ UNCHANGED <<members, call, current_node, ring, seen_inc, node_file, boot, tasks>>
    /\ RestOfStart

\* lines 105-110: the membership is set to the local node, Alive; then
\* fast_bootstrap is spawned and awaited
StartStoreSelf ==
    /\ boot.phase = "new"
    /\ members' = MapPut(EmptyMembership, LocalId, member_state(current_node, "Alive", now))
    /\ boot' = IF boot.peers = 0 THEN boot_at("rebuild", 0, 0, FALSE)
               ELSE boot_at("ping", boot.peers, boot.peers, FALSE)
    /\ UNCHANGED <<call, current_node, now, ring, seen_inc, node_file, tasks>>
    /\ RestOfStart

\* the membership, NodeInfo and node file that handle_message(msg) leaves
BootHandled(ms) ==
    /\ self_defense(ms, current_node).incarnation <= MaxLocalInc
    /\ members' = ms
    /\ current_node' = self_defense(ms, current_node)
    /\ seen_inc' = note_incarnations(seen_inc, members)
    /\ call' = [op |-> "handle_message", incarnation |-> current_node.incarnation]
    /\ node_file' = IF is_dead(ms, current_node.node_id)
                    THEN persist(self_defense(ms, current_node))
                    ELSE node_file

\* fast_bootstrap, first loop: the Ping to the next initial peer exhausted
\* its retries (nothing is recorded) ...
BootPingFailed ==
    /\ boot.phase = "ping"
    /\ boot' = boot_next(boot, boot.answered)
    /\ UNCHANGED <<members, call, current_node, now, ring, seen_inc, node_file, tasks>>
    /\ RestOfStart

\* ... or was answered by an Ack, which handle_message takes
BootPingAcked ==
    /\ boot.phase = "ping"
    /\ \E info \in GossipNodeInfo : BootHandled(handle_info(members, info, now))
    /\ boot' = boot_next(boot, TRUE)
    /\ UNCHANGED <<now, ring, tasks>>
    /\ RestOfStart

\* fast_bootstrap, second loop: the Sync to the next initial peer failed ...
BootSyncFailed ==
    /\ boot.phase = "sync"
    /\ boot' = boot_next(boot, boot.answered)
    /\ UNCHANGED <<members, call, current_node, now, ring, seen_inc, node_file, tasks>>
    /\ RestOfStart

\* ... or was answered by a Sync, which handle_message takes
BootSyncAnswered ==
    /\ boot.phase = "sync"
    /\ \E list \in SyncLists : BootHandled(handle_sync(members, list, current_node, now))
    /\ boot' = boot_next(boot, TRUE)
    /\ UNCHANGED <<now, ring, tasks>>
    /\ RestOfStart

\* the end of fast_bootstrap (rebuild_ring), then lines 118-253: bail out on
\* an empty membership, else spawn the four loops and return them
StartFinish ==
    /\ boot.phase = "rebuild"
    /\ ring' = rebuild_ring(members, current_node, now)
    /\ IF bootstrap_failed(members)
       THEN /\ boot' = boot_at("failed", boot.peers, 0, boot.answered)
            /\ tasks' = tasks
       ELSE /\ boot' = boot_at("started", boot.peers, 0, boot.answered)
            /\ tasks' = [l \in Loops |-> "running"]
    /\ call' = RingRebuilt
    /\ UNCHANGED <<members, current_node, now, seen_inc, node_file>>
    /\ RestOfStart

NextStart ==
    \/ StartTick
    \/ StartStoreSelf
    \/ BootPingFailed
    \/ BootPingAcked
    \/ BootSyncFailed
    \/ BootSyncAnswered
    \/ StartFinish

SpecStart == InitStart /\ [][NextStart]_vars

\* ------------------------------------------------------------ SpecRestart
\* run_gossip_proxy with a node file present: NodeInfo::load, then
\* advance_incarnation; the addresses are those of the new process
restart_node_reuse(file, addr) ==
    [node_id |-> file.node_id, incarnation |-> file.incarnation, advertise_addr |-> addr]
restart_node(file, addr) ==
    [node_id |-> file.node_id, incarnation |-> file.incarnation + 1, advertise_addr |-> addr]

\* the process stops at any point between two handlers and is started
\* again: the NodeInfo is loaded, advanced and persisted, GossipState::new
\* starts from an empty membership and ring, and start stores the local node
Restart ==
    LET node == restart_node(node_file, "a") IN
    /\ node.incarnation <= MaxLocalInc
    /\ current_node' = node
    /\ node_file' = persist(node)
    /\ members' = MapPut(EmptyMembership, node.node_id, member_state(node, "Alive", now))
    /\ ring' = EmptyRing
    /\ seen_inc' = [n \in GossipIds |-> 0]
    /\ call' = [op |-> "restart", node_id |-> current_node.node_id,
                incarnation |-> current_node.incarnation]
    /\ UNCHANGED <<now, vnode_hash, routed, server_vars, node_vars>>

NextRestart ==
    \/ Tick
    \/ HandlePing
    \/ HandleAck
    \/ HandleSync
    \/ Restart

SpecRestart == InitGossip /\ [][NextRestart]_vars

\* -------------------------------------------------------------- SpecLoops
\* The four tasks GossipState::start spawns, each a loop selected against the
\* shutdown signal. A task is "running" while it waits for its ticker,
\* "sending" inside ping or sync (a send with retries), "stopped" once the
\* shutdown branch of its select! won over a wait for the ticker, "cancelled"
\* once it won over a send, "panicked" once its future panicked.

\* DEFAULT_RETRIES: with_max_times(DEFAULT_RETRIES), 3 scaled down to one
DEFAULT_RETRIES == 1

\* rng.random_range(0..membership.members().len()) panics on an empty range,
\* and otherwise yields an index nth() finds: the members the turn may draw
random_member(ms) == DOMAIN ms
random_range_panics(ms) == DOMAIN ms = {}

\* tokio::select! { _ = fut => .., _ = shutdown_rx_clone.is_shutdown() => .. }:
\* the shutdown branch can win wherever the loop is suspended
select_shutdown_at_tick(task, sd) == sd /\ task = "running"
select_shutdown(task, sd) == sd /\ task \in {"running", "sending"}

\* the Ack a peer answers a Ping with: the local node its current NodeInfo, a
\* peer the NodeInfo it was contacted under
AckReplies(peer) ==
    IF peer.node_id = current_node.node_id THEN {current_node} ELSE {peer}

\* the lists a peer answers a Sync with: what it holds of the nodes at their
\* first incarnation
SyncReplies == {list \in SyncLists : \A i \in DOMAIN list : list[i].info.incarnation = 0}

\* the loops have been spawned on a first start, after a peer answered the
\* bootstrap
InitLoops ==
    /\ now = 0
    /\ current_node = [node_id |-> LocalId, incarnation |-> 0, advertise_addr |-> "a"]
    /\ members = MapPut(MapPut(EmptyMembership, 2,
                               member_state([node_id |-> 2, incarnation |-> 0,
                                             advertise_addr |-> "a"], "Alive", now)),
                        LocalId, member_state(current_node, "Alive", now))
    /\ seen_inc = [n \in GossipIds |-> 0]
    /\ vnode_hash = SampleHash
    /\ ring = rebuild_ring(members, current_node, now)
    /\ call = NoCall
    /\ routed = NoRoute
    /\ InitServer

\* what the loops leave alone
RestOfLoops ==
    UNCHANGED <<vnode_hash, routed, server_vars, boot, memory, disk, cache_op, history,
                views, forward, writers>>

\* the loop's task after a step
task_set(l, state) == [tasks EXCEPT ![l] = state]

\* the clock advances, up to the first reading at which an entry of the
\* initial membership can have passed the deadline
LoopClock == DEFAULT_MEMBER_DEADLINE + 1
LoopTick ==
    /\ now < LoopClock
    /\ now' = now + 1
    /\ call' = NoCall
    /\ UNCHANGED <<members, current_node, ring, seen_inc, node_file, shutdown, tasks,
                   inflight>>
    /\ RestOfLoops

\* one turn of the ping or the anti-entropy loop up to the first send: draw a
\* member, skip it when Dead, else start ping(member.info) / sync(member.info)
Turn(l) ==
    /\ tasks[l] = "running"
    /\ IF random_range_panics(members)
       THEN /\ tasks' = task_set(l, "panicked")
            /\ UNCHANGED inflight
       ELSE \E n \in random_member(members) :
            IF members[n].status = "Dead"
            THEN UNCHANGED <<tasks, inflight>>
            ELSE /\ tasks' = task_set(l, "sending")
                 /\ inflight' = [inflight EXCEPT ![l] =
                                    {[peer |-> members[n].info, attempts |-> 0]}]
    /\ call' = NoCall
    /\ UNCHANGED <<members, current_node, now, ring, seen_inc, node_file, shutdown>>
    /\ RestOfLoops

\* a send failed and the retry policy sends again
Retry(l) ==
    /\ tasks[l] = "sending"
    /\ \E f \in inflight[l] :
        /\ f.attempts < DEFAULT_RETRIES
        /\ inflight' = [inflight EXCEPT ![l] = {[f EXCEPT !.attempts = @ + 1]}]
    /\ call' = NoCall
    /\ UNCHANGED <<members, current_node, now, ring, seen_inc, node_file, shutdown, tasks>>
    /\ RestOfLoops

\* the last retry failed: mark_dead(&peer), and the loop waits for its ticker
Exhausted(l) ==
    /\ tasks[l] = "sending"
    /\ \E f \in inflight[l] :
        /\ f.attempts = DEFAULT_RETRIES
        /\ members' = mark_dead(members, f.peer)
    /\ call' = NoCall
    /\ inflight' = [inflight EXCEPT ![l] = {}]
    /\ tasks' = task_set(l, "running")
    /\ UNCHANGED <<current_node, now, ring, seen_inc, node_file, shutdown>>
    /\ RestOfLoops

\* the peer answered and the answer went through handle_message, which
\* stored the membership ms
Answered(l, ms) ==
    /\ self_defense(ms, current_node).incarnation <= MaxLocalInc
    /\ members' = ms
    /\ current_node' = self_defense(ms, current_node)
    /\ node_file' = IF is_dead(ms, current_node.node_id)
                    THEN persist(self_defense(ms, current_node))
                    ELSE node_file
    /\ call' = NoCall
    /\ inflight' = [inflight EXCEPT ![l] = {}]
    /\ tasks' = task_set(l, "running")
    /\ UNCHANGED <<now, ring, seen_inc, shutdown>>
    /\ RestOfLoops

\* ping: Ok(Ack(info))
PingAcked ==
    /\ tasks["ping"] = "sending"
    /\ \E f \in inflight["ping"] : \E info \in AckReplies(f.peer) :
        Answered("ping", handle_info(members, info, now))

\* sync: Ok(Sync { members })
SyncAnswered ==
    /\ tasks["anti_entropy"] = "sending"
    /\ \E list \in SyncReplies :
        Answered("anti_entropy", handle_sync(members, list, current_node, now))

\* one turn of the ring-rebuild loop
RebuildTurn ==
    /\ tasks["rebuild_ring"] = "running"
    /\ ring' = rebuild_ring(members, current_node, now)
    /\ call' = NoCall
    /\ UNCHANGED <<members, current_node, now, seen_inc, node_file, shutdown, tasks, inflight>>
    /\ RestOfLoops

\* one turn of the harvest loop
HarvestTurn ==
    LET dead == dead_members(members, now)
        kept == remove_members(members, dead) IN
    /\ tasks["remove_dead_members"] = "running"
    /\ members' = kept
    /\ ring' = IF dead # {} THEN rebuild_ring(kept, current_node, now) ELSE ring
    /\ call' = NoCall
    /\ UNCHANGED <<current_node, now, seen_inc, node_file, shutdown, tasks, inflight>>
    /\ RestOfLoops

\* the shutdown signal fires
Shutdown ==
    /\ ~shutdown
    /\ shutdown' = TRUE
    /\ call' = NoCall
    /\ UNCHANGED <<members, current_node, now, ring, seen_inc, node_file, tasks, inflight>>
    /\ RestOfLoops

\* the shutdown branch of a task's select! wins: the loop future is dropped
\* where it was suspended
LoopExit(l) ==
    /\ select_shutdown(tasks[l], shutdown)
    /\ tasks' = task_set(l, IF tasks[l] = "sending" THEN "cancelled" ELSE "stopped")
    /\ inflight' = [x \in SendLoops |-> IF x = l THEN {} ELSE inflight[x]]
    /\ call' = NoCall
    /\ UNCHANGED <<members, current_node, now, ring, seen_inc, node_file, shutdown>>
    /\ RestOfLoops

NextLoops ==
    \/ LoopTick
    \/ \E l \in SendLoops : Turn(l)
    \/ \E l \in SendLoops : Retry(l)
    \/ \E l \in SendLoops : Exhausted(l)
    \/ PingAcked
    \/ SyncAnswered
    \/ RebuildTurn
    \/ HarvestTurn
    \/ Shutdown
    \/ \E l \in Loops : LoopExit(l)

SpecLoops == InitLoops /\ [][NextLoops]_vars

\* the runtime polls a task whose shutdown branch is ready
SpecLoopsFair == SpecLoops /\ \A l \in Loops : WF_vars(LoopExit(l))

\* ------------------------------------------------------------ SpecForward
\* A client request for one key in a cluster of two nodes whose membership
\* snapshots may disagree. Each node runs ClusterProxyEndpoint::call: it
\* serves the key or sends the request on, as a client of the owner it sees.

\* the largest number of times the model hands one request on
MaxHops == 3

\* a node's routing snapshot
view_of(nodes, ms) == [ring |-> nodes, members |-> ms]

\* the memberships a node of the cluster may hold: both nodes, each Alive or
\* Dead
ForwardMemberships ==
    {ms \in [GossipIds -> UNION {RouteMemberState(n) : n \in GossipIds}] :
        \A n \in GossipIds : ms[n].info.node_id = n}

\* the node that listens on an advertised address
NodeAt(addr) == CHOOSE n \in NodeIds : AddrOf[n] = addr

\* Proxy::route on node n for the key of the request
forward_route(vs, n, hash) ==
    route(vs[n].ring, vs[n].members,
          [node_id |-> n, incarnation |-> 0, advertise_addr |-> AddrOf[n]], hash)

\* what the forwarding leaves alone
RestOfForward ==
    UNCHANGED <<members, call, current_node, now, ring, seen_inc, vnode_hash, routed,
                server_vars, node_file, boot, tasks, shutdown, memory, disk, cache_op,
                history, inflight, views, writers>>

\* both nodes built their ring from both node ids; their memberships are any
InitForward ==
    /\ vnode_hash = SampleHash
    /\ ring = EmptyRing
    /\ members = EmptyMembership
    /\ current_node = [node_id |-> LocalId, incarnation |-> 0,
                       advertise_addr |-> AddrOf[LocalId]]
    /\ now = 0
    /\ seen_inc = [n \in GossipIds |-> 0]
    /\ call = NoCall
    /\ routed = NoRoute
    /\ engine = {}
    /\ handled = NoRequest
    /\ pc = [r \in Requests |-> "idle"]
    /\ wait_permit = new_wait_permit
    /\ run_permit = new_run_permit
    /\ arrival = NoRequest
    /\ added = {}
    /\ looked = NoLookup
    /\ node_file = persist(current_node)
    /\ boot = Started
    /\ tasks = [l \in Loops |-> "running"]
    /\ shutdown = FALSE
    /\ memory = EmptyTier
    /\ disk = EmptyTier
    /\ cache_op = NoRequest
    /\ history = NoHistory
    /\ inflight = NoneInFlight
    /\ views \in [GossipIds -> {view_of(ring_from(GossipIds), ms) : ms \in ForwardMemberships}]
    /\ forward = NoRequest
    /\ writers = NoWriters

\* a client sends a request for a key to one of the nodes
ClientSend ==
    /\ forward = NoRequest
    /\ \E n \in GossipIds, hash \in HashSlots, method \in Methods :
        forward' = [op |-> "request", method |-> method, hash |-> hash, at |-> n,
                    hops |-> 0, answered |-> FALSE]
    /\ RestOfForward

\* RouteDest::Local: the node's own endpoint answers
ServeLocal ==
    /\ forward.op = "request"
    /\ ~forward.answered
    /\ forward_route(views, forward.at, forward.hash) = Local
    /\ forward' = [forward EXCEPT !.answered = TRUE]
    /\ RestOfForward

\* RouteDest::RemoteAddr(addr): the node sends the request to addr with a
\* client of its own, and the node at addr handles it as any request
HandOn ==
    /\ forward.op = "request"
    /\ ~forward.answered
    /\ forward.hops < MaxHops
    /\ forward_route(views, forward.at, forward.hash).kind = "RemoteAddr"
    /\ forward' = [forward EXCEPT
                      !.at = NodeAt(forward_route(views, forward.at, forward.hash).addr),
                      !.hops = @ + 1]
    /\ RestOfForward

\* RouteDest::RemoteAddr(addr) and the send fails: the Err arm answers from
\* the node's own endpoint
RemoteFailed ==
    /\ forward.op = "request"
    /\ ~forward.answered
    /\ forward_route(views, forward.at, forward.hash).kind = "RemoteAddr"
    /\ forward' = [forward EXCEPT !.answered = TRUE]
    /\ RestOfForward

NextForward ==
    \/ ClientSend
    \/ ServeLocal
    \/ HandOn
    \/ RemoteFailed

SpecForward == InitForward /\ [][NextForward]_vars

\* ------------------------------------------------------------ SpecWriters
\* Two writers of the shared membership snapshot on the threads of the
\* runtime: each loads and clones the snapshot, changes the clone, and stores
\* it. A handler then loads the snapshot once more for its is_dead check.

Writers == {"w1", "w2"}
Idle == [pc |-> "idle"]

\* what a writer was called with
WriterJobs ==
    {[kind |-> "Ping", info |-> i] : i \in GossipNodeInfo}
        \cup {[kind |-> "Sync", list |-> l] : l \in SyncReplies}
        \cup {[kind |-> "mark_dead", peer |-> p] : p \in GossipNodeInfo}
        \cup {[kind |-> "remove_dead_members"]}

\* the value a writer builds from its clone
next_membership(job, ms, cur, t) ==
    CASE job.kind = "Ping" -> handle_info(ms, job.info, t)
      [] job.kind = "Sync" -> handle_sync(ms, job.list, cur, t)
      [] job.kind = "mark_dead" -> mark_dead(ms, job.peer)
      [] job.kind = "remove_dead_members" -> remove_members(ms, dead_members(ms, t))

\* a writer run on its own from load to return: the membership and the
\* NodeInfo it leaves
run_alone(job, st, t) ==
    LET ms == next_membership(job, st.members, st.cur, t) IN
    [members |-> ms,
     cur |-> IF job.kind \in {"Ping", "Sync"} THEN self_defense(ms, st.cur) ELSE st.cur]

\* what the writers leave alone
RestOfWriters ==
    UNCHANGED <<call, now, ring, seen_inc, vnode_hash, routed, server_vars, boot, tasks,
                shutdown, memory, disk, cache_op, history, inflight, views, forward>>

\* the node is up and holds itself, and perhaps peer 2; `call` keeps the
\* snapshot and the NodeInfo the writers start from
InitWriters ==
    /\ now = DEFAULT_MEMBER_DEADLINE + 1
    /\ current_node = [node_id |-> LocalId, incarnation |-> 0, advertise_addr |-> "a"]
    /\ \E peers \in {EmptyMembership}
                    \cup {MapPut(EmptyMembership, 2, m) :
                            m \in {x \in GossipMemberState(2) : x.info.incarnation = 0}} :
        members = MapPut(peers, LocalId, member_state(current_node, "Alive", 0))
    /\ vnode_hash = SampleHash
    /\ ring = rebuild_ring(members, current_node, now)
    /\ seen_inc = [n \in GossipIds |-> 0]
    /\ call = [op |-> "writers", members |-> members, cur |-> current_node]
    /\ routed = NoRoute
    /\ engine = {}
    /\ handled = NoRequest
    /\ pc = [r \in Requests |-> "idle"]
    /\ wait_permit = new_wait_permit
    /\ run_permit = new_run_permit
    /\ arrival = NoRequest
    /\ added = {}
    /\ looked = NoLookup
    /\ node_file = persist(current_node)
    /\ boot = Started
    /\ tasks = [l \in Loops |-> "running"]
    /\ shutdown = FALSE
    /\ memory = EmptyTier
    /\ disk = EmptyTier
    /\ cache_op = NoRequest
    /\ history = NoHistory
    /\ inflight = NoneInFlight
    /\ views = NoViews
    /\ forward = NoRequest
    /\ writers = [w \in Writers |-> Idle]

\* let mut membership = (**self.membership.load()).clone()
Load(w) ==
    /\ writers[w].pc = "idle"
    /\ \E job \in WriterJobs :
        writers' = [writers EXCEPT ![w] = [pc |-> "loaded", job |-> job, membership |-> members]]
    /\ UNCHANGED <<members, current_node, node_file>>
    /\ RestOfWriters

\* the clone is changed and self.membership.store(Arc::new(membership))
Store(w) ==
    /\ writers[w].pc = "loaded"
    /\ members' = next_membership(writers[w].job, writers[w].membership, current_node, now)
    /\ writers' = [writers EXCEPT
                      ![w].pc = IF writers[w].job.kind \in {"Ping", "Sync"}
                                THEN "stored" ELSE "returned"]
    /\ UNCHANGED <<current_node, node_file>>
    /\ RestOfWriters

\* the end of handle_message: self.membership.load().is_dead(..), and
\* advance_incarnation
CheckDead(w) ==
    /\ writers[w].pc = "stored"
    /\ current_node' = self_defense(members, current_node)
    /\ node_file' = IF is_dead(members, current_node.node_id)
                    THEN persist(self_defense(members, current_node))
                    ELSE node_file
    /\ writers' = [writers EXCEPT ![w].pc = "returned"]
    /\ UNCHANGED members
    /\ RestOfWriters

LoadAny == \E w \in Writers : Load(w)
StoreAny == \E w \in Writers : Store(w)
CheckDeadAny == \E w \in Writers : CheckDead(w)

NextWriters ==
    \/ LoadAny
    \/ StoreAny
    \/ CheckDeadAny

SpecWriters == InitWriters /\ [][NextWriters]_vars

\* --------------------------------------------------------------- SpecSync
\* One Sync handled while readers load the membership. The gossip crate
\* merges the list into a clone and stores it once; the cluster crate takes
\* the write lock of the membership for each update_member.

Crates == {"gossip", "cluster"}
Handlers == {"sync"}

\* cluster crate, Membership::update_member: a higher incarnation replaces,
\* a lower one is ignored, an equal one downgrades the status and keeps the
\* later heartbeat
cluster_update_member(ms, member) ==
    LET id == member.info.node_id IN
    IF id \in DOMAIN ms
    THEN LET current == ms[id] IN
         IF current.info.incarnation < member.info.incarnation
         THEN MapPut(ms, id, member)
         ELSE IF current.info.incarnation > member.info.incarnation
         THEN ms
         ELSE MapPut(ms, id, [current EXCEPT
                                !.status = downgrade_to(current.status, member.status),
                                !.heartbeat = Max(current.heartbeat, member.heartbeat)])
    ELSE MapPut(ms, id, member)

\* cluster crate: for member in members { ..update_member(member) }
RECURSIVE cluster_update_members(_, _)
cluster_update_members(ms, list) ==
    IF list = <<>> THEN ms
    ELSE cluster_update_members(cluster_update_member(ms, Head(list)), Tail(list))

\* what a Sync leaves in the membership `base` of a node whose NodeInfo is cur
sync_merged(crate, base, list, cur, t) ==
    IF crate = "gossip"
    THEN handle_sync(base, list, cur, t)
    ELSE cluster_update_member(cluster_update_members(base, list),
                               member_state(cur, "Alive", t))

\* the node is up and holds itself, and perhaps peer 2
InitSync ==
    /\ now = DEFAULT_MEMBER_DEADLINE + 1
    /\ current_node = [node_id |-> LocalId, incarnation |-> 0, advertise_addr |-> "a"]
    /\ \E peers \in {EmptyMembership}
                    \cup {MapPut(EmptyMembership, 2, m) :
                            m \in {x \in GossipMemberState(2) : x.info.incarnation = 0}} :
        members = MapPut(peers, LocalId, member_state(current_node, "Alive", 0))
    /\ vnode_hash = SampleHash
    /\ ring = rebuild_ring(members, current_node, now)
    /\ seen_inc = [n \in GossipIds |-> 0]
    /\ call = NoCall
    /\ routed = NoRoute
    /\ engine = {}
    /\ handled = NoRequest
    /\ pc = [r \in Requests |-> "idle"]
    /\ wait_permit = new_wait_permit
    /\ run_permit = new_run_permit
    /\ arrival = NoRequest
    /\ added = {}
    /\ looked = NoLookup
    /\ node_file = persist(current_node)
    /\ boot = Started
    /\ tasks = [l \in Loops |-> "running"]
    /\ shutdown = FALSE
    /\ memory = EmptyTier
    /\ disk = EmptyTier
    /\ cache_op = NoRequest
    /\ history = NoHistory
    /\ inflight = NoneInFlight
    /\ views = NoViews
    /\ forward = NoRequest
    /\ writers = [h \in Handlers |-> Idle]

\* what the handler and the readers leave alone
RestOfSync ==
    UNCHANGED <<now, ring, seen_inc, vnode_hash, routed, server_vars, boot, tasks,
                shutdown, memory, disk, cache_op, history, inflight, views, forward>>

\* handle_message(Sync { members }) is entered; the gossip crate loads and
\* clones the snapshot
ReceiveSync ==
    /\ writers["sync"].pc = "idle"
    /\ \E crate \in Crates, list \in SyncReplies :
        writers' = [writers EXCEPT !["sync"] =
                      [pc |-> IF crate = "gossip" THEN "loaded" ELSE "merging",
                       crate |-> crate, list |-> list, rest |-> list,
                       base |-> members, cur |-> current_node, membership |-> members]]
    /\ UNCHANGED <<members, current_node, node_file, call>>
    /\ RestOfSync

\* gossip crate: the list and the self-refresh are merged into the clone,
\* and the clone is stored
StoreMerged ==
    /\ writers["sync"].pc = "loaded"
    /\ members' = handle_sync(writers["sync"].membership, writers["sync"].list,
                              current_node, now)
    /\ writers' = [writers EXCEPT !["sync"].pc = "stored", !["sync"].rest = <<>>]
    /\ UNCHANGED <<current_node, node_file, call>>
    /\ RestOfSync

\* cluster crate: self.membership.write().unwrap().update_member(member),
\* one turn of the for loop
MergeEntry ==
    /\ writers["sync"].pc = "merging"
    /\ writers["sync"].rest # <<>>
    /\ members' = cluster_update_member(members, Head(writers["sync"].rest))
    /\ writers' = [writers EXCEPT !["sync"].rest = Tail(@)]
    /\ UNCHANGED <<current_node, node_file, call>>
    /\ RestOfSync

\* cluster crate: the self-refresh under a write lock of its own
RefreshSelf ==
    /\ writers["sync"].pc = "merging"
    /\ writers["sync"].rest = <<>>
    /\ members' = cluster_update_member(members, member_state(current_node, "Alive", now))
    /\ writers' = [writers EXCEPT !["sync"].pc = "stored"]
    /\ UNCHANGED <<current_node, node_file, call>>
    /\ RestOfSync

\* the end of handle_message
SyncCheckDead ==
    /\ writers["sync"].pc = "stored"
    /\ current_node' = self_defense(members, current_node)
    /\ node_file' = IF is_dead(members, current_node.node_id)
                    THEN persist(self_defense(members, current_node))
                    ELSE node_file
    /\ writers' = [writers EXCEPT !["sync"].pc = "returned"]
    /\ UNCHANGED <<members, call>>
    /\ RestOfSync

\* a reader (Proxy::route, the ping loop, GET /members) takes the membership
ReadMembership ==
    /\ call' = [op |-> "membership", members |-> members]
    /\ UNCHANGED <<members, current_node, node_file, writers>>
    /\ RestOfSync

NextSync ==
    \/ ReceiveSync
    \/ StoreMerged
    \/ MergeEntry
    \/ RefreshSelf
    \/ SyncCheckDead
    \/ ReadMembership

SpecSync == InitSync /\ [][NextSync]_vars

\* -------------------------------------------------------------- SpecCache
\* The HybridCache behind FoyerEngine, as try_new configures it: a memory
\* tier in front of a disk tier, entries written to disk when the memory
\* tier evicts them (HybridCachePolicy::WriteOnEviction).

\* one tier with key k set to v, and without key k
TierPut(tier, k, v) == [x \in (DOMAIN tier) \cup {k} |-> IF x = k THEN v ELSE tier[x]]
TierDrop(tier, k) == [x \in (DOMAIN tier) \ {k} |-> tier[x]]

\* a HybridCache state
cache_at(mem, dsk) == [memory |-> mem, disk |-> dsk]

\* FoyerEngine::get: inner.get(key); Ok(Some(value)) gives the value, a miss
\* or an error gives None. The memory tier answers first; a disk hit is
\* read (read_ok) and brought back into the memory tier
cache_get_disk_first(mem, dsk, k, read_ok) ==
    IF k \in DOMAIN dsk /\ read_ok
    THEN [ret |-> {dsk[k]}, cache |-> cache_at(TierPut(mem, k, dsk[k]), dsk)]
    ELSE IF k \in DOMAIN mem
    THEN [ret |-> {mem[k]}, cache |-> cache_at(mem, dsk)]
    ELSE [ret |-> {}, cache |-> cache_at(mem, dsk)]
cache_get(mem, dsk, k, read_ok) ==
    IF k \in DOMAIN mem
    THEN [ret |-> {mem[k]}, cache |-> cache_at(mem, dsk)]
    ELSE IF k \in DOMAIN dsk /\ read_ok
    THEN [ret |-> {dsk[k]}, cache |-> cache_at(TierPut(mem, k, dsk[k]), dsk)]
    ELSE [ret |-> {}, cache |-> cache_at(mem, dsk)]

\* FoyerEngine::put: inner.insert(key, value)
cache_put(mem, dsk, k, v) == cache_at(TierPut(mem, k, v), dsk)

\* FoyerEngine::delete: inner.remove(key), from both tiers
cache_delete_memory_only(mem, dsk, k) == cache_at(TierDrop(mem, k), dsk)
cache_delete_one_tier(mem, dsk, k) ==
    IF k \in DOMAIN mem THEN cache_at(TierDrop(mem, k), dsk)
    ELSE cache_at(mem, TierDrop(dsk, k))
cache_delete(mem, dsk, k) == cache_at(TierDrop(mem, k), TierDrop(dsk, k))

\* what the cache operations leave alone
RestOfCache ==
    UNCHANGED <<members, call, current_node, now, ring, seen_inc, vnode_hash, routed,
                server_vars, node_file, boot, tasks, shutdown, inflight, views,
                forward, writers>>

\* a node with an empty cache
InitCache ==
    /\ members = EmptyMembership
    /\ call = NoCall
    /\ current_node = [node_id |-> LocalId, incarnation |-> 0, advertise_addr |-> "a"]
    /\ now = 0
    /\ ring = EmptyRing
    /\ seen_inc = [n \in GossipIds |-> 0]
    /\ vnode_hash = SampleHash
    /\ routed = NoRoute
    /\ InitServer

\* the handler get on ctx.engine
CacheGet ==
    /\ \E k \in CacheKeys, read_ok \in BOOLEAN :
        LET r == cache_get(memory, disk, k, read_ok) IN
        /\ memory' = r.cache.memory
        /\ disk' = r.cache.disk
        /\ cache_op' = [op |-> "get", key |-> k, ret |-> r.ret,
                        status |-> IF r.ret # {} THEN 200 ELSE 404]
    /\ UNCHANGED history
    /\ RestOfCache

\* the handler put on ctx.engine
CachePut ==
    /\ \E k \in CacheKeys, v \in CacheValues :
        LET c == cache_put(memory, disk, k, v) IN
        /\ memory' = c.memory
        /\ disk' = c.disk
        /\ cache_op' = [op |-> "put", key |-> k, value |-> v, status |-> 201]
        /\ history' = [history EXCEPT ![k].last = {v}, ![k].evicted = FALSE]
    /\ RestOfCache

\* the handler delete on ctx.engine; the answer is that of the handler,
\* given the keys the cache held
CacheDelete ==
    /\ \E k \in CacheKeys :
        LET c == cache_delete(memory, disk, k) IN
        /\ memory' = c.memory
        /\ disk' = c.disk
        /\ cache_op' = [op |-> "delete", key |-> k,
                        present |-> k \in (DOMAIN memory) \cup (DOMAIN disk),
                        status |-> endpoint_call((DOMAIN memory) \cup (DOMAIN disk),
                                                 "DELETE", k, TRUE).status]
        /\ history' = [history EXCEPT ![k].last = {}, ![k].evicted = FALSE]
    /\ RestOfCache

\* the memory tier evicts an entry, which is written to the disk tier
EvictToDisk ==
    /\ \E k \in DOMAIN memory :
        /\ memory' = TierDrop(memory, k)
        /\ disk' = TierPut(disk, k, memory[k])
        /\ history' = [history EXCEPT ![k].evicted = TRUE, ![k].spilled = TRUE]
    /\ cache_op' = NoRequest
    /\ RestOfCache

\* the disk tier reclaims the space of an entry
EvictFromDisk ==
    /\ \E k \in DOMAIN disk :
        /\ disk' = TierDrop(disk, k)
        /\ history' = [history EXCEPT ![k].evicted = TRUE]
    /\ cache_op' = NoRequest
    /\ UNCHANGED memory
    /\ RestOfCache

NextCache ==
    \/ CacheGet
    \/ CachePut
    \/ CacheDelete
    \/ EvictToDisk
    \/ EvictFromDisk

SpecCache == InitCache /\ [][NextCache]_vars

\* the entry the last call found under the incoming node_id
CallOccupied ==
    /\ call.op = "update_member"
    /\ call.member.info.node_id \in DOMAIN call.pre
CallCurrent == call.pre[call.member.info.node_id]
CallStored == members[call.member.info.node_id]
CallSameIncarnation ==
    /\ CallOccupied
    /\ CallCurrent.info.incarnation = call.member.info.incarnation

\* ---------------------------------------------------- claims on SpecMember

\* C1: for every node_id that the map held before an update_member call, the
\* entry is still there after the call and its stored incarnation is not
\* lower than before, whatever the incoming MemberState was.
C1_IncarnationMonotone ==
    call.op = "update_member" =>
        \A n \in DOMAIN call.pre :
            /\ n \in DOMAIN members
            /\ members[n].info.incarnation >= call.pre[n].info.incarnation

\* an incoming state of lower incarnation, other status and newer heartbeat
\* met a stored entry
C1_Witness ==
    /\ CallOccupied
    /\ call.member.info.incarnation < CallCurrent.info.incarnation
    /\ call.member.status # CallCurrent.status
    /\ call.member.heartbeat > CallCurrent.heartbeat

\* C2: at equal incarnation, an incoming observation whose heartbeat is
\* strictly older than the stored one never changes a stored Dead to Alive.
C2_NoStaleDeadToAlive ==
    ( /\ CallSameIncarnation
      /\ call.member.heartbeat < CallCurrent.heartbeat
      /\ CallCurrent.status = "Dead" )
    => CallStored.status = "Dead"

\* C4: an incoming state of strictly higher incarnation replaces the stored
\* entry entirely (info, status and heartbeat are the incoming ones) and the
\* call reports a change.
C4_HigherIncarnationReplaces ==
    ( /\ CallOccupied
      /\ call.member.info.incarnation > CallCurrent.info.incarnation )
    => /\ CallStored = call.member
       /\ call.ret = TRUE

\* a higher incarnation arrived Alive over a stored Dead with a lower heartbeat
C4_Witness ==
    /\ CallOccupied
    /\ call.member.info.incarnation > CallCurrent.info.incarnation
    /\ CallCurrent.status = "Dead"
    /\ call.member.status = "Alive"
    /\ call.member.heartbeat < CallCurrent.heartbeat
    /\ CallStored = call.member

\* C5: an incoming state of strictly lower incarnation leaves the whole map
\* unchanged and the call reports no change.
C5_LowerIncarnationIgnored ==
    ( /\ CallOccupied
      /\ call.member.info.incarnation < CallCurrent.info.incarnation )
    => /\ members = call.pre
       /\ call.ret = FALSE

\* a lower incarnation arrived with another status, address and a newer
\* heartbeat while the map held a second entry
C5_Witness ==
    /\ CallOccupied
    /\ call.member.info.incarnation < CallCurrent.info.incarnation
    /\ call.member.status # CallCurrent.status
    /\ call.member.heartbeat > CallCurrent.heartbeat
    /\ call.member.info.advertise_addr # CallCurrent.info.advertise_addr
    /\ DOMAIN call.pre = GossipIds
    /\ members = call.pre

\* C6: at equal incarnation the stored heartbeat after the call is the
\* maximum of the stored and the incoming heartbeat; and whenever the stored
\* incarnation of a node_id is the same before and after a call, its stored
\* heartbeat has not decreased.
C6_HeartbeatMax ==
    /\ CallSameIncarnation =>
           CallStored.heartbeat = Max(CallCurrent.heartbeat, call.member.heartbeat)
    /\ call.op = "update_member" =>
           \A n \in DOMAIN call.pre :
               members[n].info.incarnation = call.pre[n].info.incarnation
                   => members[n].heartbeat >= call.pre[n].heartbeat

\* an older heartbeat arrived at the stored incarnation
C6_Witness ==
    /\ CallSameIncarnation
    /\ call.member.heartbeat < CallCurrent.heartbeat
    /\ CallStored.heartbeat = CallCurrent.heartbeat

\* C7: at equal incarnation a Dead report with a strictly older heartbeat
\* does not override a stored Alive, and a status change happens only when
\* the incoming heartbeat is at least the stored heartbeat.
C7_StaleReportKeepsStatus ==
    /\ ( /\ CallSameIncarnation
         /\ call.member.status = "Dead"
         /\ call.member.heartbeat < CallCurrent.heartbeat
         /\ CallCurrent.status = "Alive" )
       => CallStored.status = "Alive"
    /\ ( /\ CallSameIncarnation
         /\ CallStored.status # CallCurrent.status )
       => call.member.heartbeat >= CallCurrent.heartbeat

\* C8: update_member returns true exactly when the map after the call
\* differs from the map before it.
C8_ReturnsChanged ==
    call.op = "update_member" => (call.ret <=> (members # call.pre))

\* an incoming state that differs from the stored entry (other address) at
\* the stored incarnation, status and heartbeat: nothing changes, false
C8_Witness ==
    /\ CallSameIncarnation
    /\ call.member # CallCurrent
    /\ call.member.status = CallCurrent.status
    /\ call.member.heartbeat <= CallCurrent.heartbeat
    /\ call.ret = FALSE

\* -------------------------------------- claims on SpecMessages / SpecGossip

\* C3: after any sequence of handle_message invocations the local node_id is
\* present in the membership with status Alive.
C3_SelfAlive ==
    /\ LocalId \in DOMAIN members
    /\ members[LocalId].status = "Alive"

\* C9: the incarnation the membership holds for a peer is never lower than
\* an incarnation it held for that peer before, also when the peer's entry
\* was harvested in between.
C9_PeerIncarnationNeverDrops ==
    \A n \in (DOMAIN members) \ {LocalId} :
        members[n].info.incarnation >= seen_inc[n]

\* ------------------------------------------------------ claims on SpecRoute

\* the nodes on the ring that the membership snapshot holds as Alive
RouteAlive == {n \in RingNodes(ring) : n \in DOMAIN members /\ members[n].status = "Alive"}
\* the number of slots walked clockwise from the key's digest to slot s
Clockwise(s) == (s - routed.hash + Cardinality(HashSlots)) % Cardinality(HashSlots)
\* the slots holding an Alive node, the nearest of them clockwise, and the
\* smallest Alive node_id on it
RouteAliveSlots == {s \in DOMAIN ring : ring[s] \cap RouteAlive # {}}
RouteOwnerSlot ==
    CHOOSE s \in RouteAliveSlots : \A t \in RouteAliveSlots : Clockwise(s) <= Clockwise(t)
RouteOwner == SetMin(ring[RouteOwnerSlot] \cap RouteAlive)

\* C10: route returns Local when no node on the ring is Alive in the
\* membership or when the first Alive owner clockwise from the key's digest
\* is the local node; otherwise RemoteAddr of that owner's advertised data
\* address, which is never the local node's, nor that of a Dead or absent
\* member.
C10_RouteDecision ==
    routed.op = "route" =>
        /\ RouteAlive = {} => routed.dest = Local
        /\ RouteAlive # {} =>
               routed.dest = IF RouteOwner = LocalId
                             THEN Local
                             ELSE RemoteAddr(members[RouteOwner].info.advertise_addr)
        /\ routed.dest.kind = "RemoteAddr" =>
               /\ routed.dest.addr # AddrOf[LocalId]
               /\ \A n \in NodeIds \ RouteAlive : routed.dest.addr # AddrOf[n]

\* a key was routed to a remote owner found after wrapping around the ring,
\* past a slot held by a Dead member and past the local node's slot
C10_Witness ==
    /\ routed.op = "route"
    /\ routed.dest.kind = "RemoteAddr"
    /\ RouteOwnerSlot < routed.hash
    /\ \E s \in DOMAIN ring :
           /\ s >= routed.hash
           /\ \E n \in ring[s] : n \in DOMAIN members /\ members[n].status = "Dead"
    /\ LocalId \in RingNodes(ring)

\* ------------------------------------------------------ claims on SpecProxy

\* C11: for GET, PUT and DELETE alike, a request whose key routes to
\* RemoteAddr(u) is answered 307 Temporary Redirect with a Location header
\* that starts with u.
C11_RemoteRedirects ==
    (handled.op = "call" /\ handled.dest.kind = "RemoteAddr")
    => /\ handled.status = 307
       /\ handled.location = {handled.dest.addr}

\* C12: a GET, PUT or DELETE whose key routes to a remote owner neither
\* reads nor writes the local cache engine, whatever contacting the owner
\* gave, the owner being unreachable included.
C12_RemoteLeavesEngine ==
    (handled.op = "call" /\ handled.dest.kind = "RemoteAddr")
    => /\ ~handled.engine_read
       /\ ~handled.engine_written

\* -------------------------------------------------- claims on SpecRateLimit

\* C13: under any interleaving of requests, failed and dropped ones
\* included, the number of handlers inside the inner storage endpoint at the
\* same time never exceeds run_permit.
C13_RunBound == Cardinality(Running) <= run_limit

\* run_permit many handlers are inside the endpoint while others queue
C13_Witness ==
    /\ Cardinality(Running) = run_limit
    /\ Cardinality(Queued) >= 2
    /\ run_permit = 0

\* C14: a request is answered 429 exactly when, at its arrival, run_permit
\* x 5 admitted requests are in flight (queued or running); a rejected
\* request holds no permit and is not in the endpoint, so the admitted
\* requests in flight never exceed run_permit x 5.
C14_Backpressure ==
    /\ arrival.op = "call" =>
           (arrival.status = 429 <=> arrival.in_flight = run_limit * 5)
    /\ Cardinality(Queued \cup Running) <= run_limit * 5
    /\ wait_permit = run_limit * 5 - Cardinality(Queued \cup Running)
    /\ run_permit = run_limit - Cardinality(Running)

\* a request was rejected with the queue full
C14_Witness ==
    /\ arrival.op = "call"
    /\ arrival.status = 429
    /\ \E r \in Requests : pc[r] = "rejected"
    /\ Cardinality(Queued \cup Running) = run_limit * 5

\* ------------------------------------------------------- claims on SpecRing

\* C15: a ring built by add_node calls in any order, with any node added
\* more than once, gives for every key the same lookup as the ring built
\* from the same set of node_ids in node_id order.
C15_RingDeterminism ==
    \A hash \in HashSlots : lookup(ring, hash) = lookup(ring_from(added), hash)

\* every node is on the ring, the smallest node_id was added last, it had
\* been added before, and it shares a slot with another node
C15_Witness ==
    /\ looked.op = "add_node"
    /\ looked.node = SetMin(NodeIds)
    /\ looked.again
    /\ added = NodeIds
    /\ \E s \in DOMAIN ring : looked.node \in ring[s] /\ Cardinality(ring[s]) >= 2

\* the occupied slots at or after the digest of the last lookup, and the
\* slot the walk from that digest stops at: the first of them, or the slot
\* of smallest hash when there is none
LookedAhead == {s \in DOMAIN ring : s >= looked.hash}
LookedSlot == IF LookedAhead # {} THEN SetMin(LookedAhead) ELSE SetMin(DOMAIN ring)

\* C16: on a non-empty ring lookup returns the smallest node_id of the first
\* slot whose hash is at least the key's, or of the slot of smallest hash
\* when there is no such slot; it returns none only on the empty ring; and
\* every node added stays on each of its slots, shared or not.
C16_Lookup ==
    /\ looked.op = "lookup" =>
           /\ (looked.ret = {}) <=> (added = {})
           /\ added # {} => looked.ret = {SetMin(ring[LookedSlot])}
    /\ \A node \in added : \A i \in 0..(VNodes - 1) :
           /\ hash_node(node, i) \in DOMAIN ring
           /\ node \in ring[hash_node(node, i)]

\* a lookup wrapped around to a slot that two nodes share
C16_Witness ==
    /\ looked.op = "lookup"
    /\ added # {}
    /\ LookedAhead = {}
    /\ Cardinality(ring[LookedSlot]) >= 2
    /\ looked.ret = {SetMin(ring[LookedSlot])}

\* the slots holding a node the predicate of the last lookup_until accepts,
\* and the number of slots walked clockwise from the key's digest to slot s
UntilSlots == {s \in DOMAIN ring : ring[s] \cap looked.accepted # {}}
UntilClockwise(s) ==
    (s - looked.hash + Cardinality(HashSlots)) % Cardinality(HashSlots)
UntilSlot ==
    CHOOSE s \in UntilSlots : \A t \in UntilSlots : UntilClockwise(s) <= UntilClockwise(t)

\* C17: lookup_until returns the smallest accepted node_id of the first slot,
\* walking clockwise from the key's digest and once around, that holds an
\* accepted node; it returns a node exactly when some node on the ring is
\* accepted; and with a predicate accepting every node it returns what
\* lookup returns.
C17_LookupUntil ==
    /\ looked.op = "lookup_until" =>
           /\ (looked.ret # {}) <=> (RingNodes(ring) \cap looked.accepted # {})
           /\ UntilSlots # {} =>
                  looked.ret = {SetMin(ring[UntilSlot] \cap looked.accepted)}
    /\ \A hash \in HashSlots : lookup_until(ring, hash, NodeIds) = lookup(ring, hash)

\* a lookup_until passed a slot whose nodes are all refused, wrapped around
\* and returned a node that is not the smallest of its slot
C17_Witness ==
    /\ looked.op = "lookup_until"
    /\ looked.ret # {}
    /\ UntilSlot < looked.hash
    /\ \E s \in DOMAIN ring : s >= looked.hash
    /\ looked.ret # {SetMin(ring[UntilSlot])}

\* C18: list_vnodes(node_id) returns exactly the slots of the ring that hold
\* node_id, also for a node that no rebuild has put on the ring yet.
C18_ListVnodes ==
    looked.op = "list_vnodes" =>
        /\ \A i \in DOMAIN looked.ret :
               /\ looked.ret[i] \in DOMAIN ring
               /\ looked.node \in ring[looked.ret[i]]
        /\ {looked.ret[i] : i \in DOMAIN looked.ret}
               = {s \in DOMAIN ring : looked.node \in ring[s]}

\* -------------------------------------------- claims on the ring rebuild

\* C19: right after every ring rebuild the node_ids on the published ring
\* are exactly the node_ids of the membership, each on all of its vnodes.
C19_RingMatchesMembership ==
    call.op = "rebuild_ring" =>
        /\ RingNodes(ring) = DOMAIN members
        /\ \A n \in DOMAIN members : \A i \in 0..(VNodes - 1) :
               /\ hash_node(n, i) \in DOMAIN ring
               /\ n \in ring[hash_node(n, i)]

\* C20: after each ring rebuild the stored membership holds the local node
\* as Alive with the heartbeat of the rebuild time, also when it was Dead or
\* missing before.
C20_RebuildRefreshesSelf ==
    call.op = "rebuild_ring" =>
        /\ LocalId \in DOMAIN members
        /\ members[LocalId].status = "Alive"
        /\ members[LocalId].heartbeat = now

\* ---------------------------------------------- claims on the local node

\* C22: at the end of every handle_message, if the membership holds the
\* local node as Dead then the local incarnation is one above what it was
\* when the message arrived and node.json holds it; if the local entry is
\* not Dead the local incarnation is what it was.
C22_SelfDefense ==
    call.op = "handle_message" =>
        IF is_dead(members, LocalId)
        THEN /\ current_node.incarnation = call.incarnation + 1
             /\ node_file.incarnation = current_node.incarnation
        ELSE current_node.incarnation = call.incarnation

\* a message left the local node Dead and the node advanced for the second
\* time
C22_Witness ==
    /\ call.op = "handle_message"
    /\ is_dead(members, LocalId)
    /\ current_node.incarnation = call.incarnation + 1
    /\ call.incarnation >= 1
    /\ node_file.incarnation = current_node.incarnation

\* C21: start fails, with no gossip loop started, exactly when no initial
\* peer answered during bootstrap (none configured, or every Ping and Sync
\* exhausted its retries); one successful exchange makes it succeed.
C21_BootstrapFailure ==
    boot.phase \in {"started", "failed"} =>
        /\ (boot.phase = "failed") <=> ~boot.answered
        /\ boot.phase = "failed" => \A l \in Loops : tasks[l] = "unspawned"
        /\ boot.phase = "started" => \A l \in Loops : tasks[l] = "running"

\* C23: the incarnation the node carries is always the persisted one, a
\* restart keeps the node_id, and the incarnation carried after a restart
\* is strictly greater than the one carried when the process stopped, which
\* is the greatest it carried before.
C23_RestartMonotone ==
    /\ node_file = persist(current_node)
    /\ call.op = "restart" =>
           /\ current_node.node_id = call.node_id
           /\ current_node.incarnation > call.incarnation

\* the node restarted while it carried incarnation 1 and now carries and
\* has persisted incarnation 2
C23_Witness ==
    /\ call.op = "restart"
    /\ call.incarnation = 1
    /\ current_node.incarnation = 2
    /\ node_file.incarnation = 2

\* ------------------------------------------------------ claims on SpecCache

C27_FailureMarking ==
    call.op = "mark_dead" =>
        LET id == call.peer.node_id IN
        /\ DOMAIN members = DOMAIN call.pre
        /\ \A n \in DOMAIN call.pre : n # id => members[n] = call.pre[n]
        /\ (id \in DOMAIN call.pre
              /\ call.pre[id].info.incarnation = call.peer.incarnation) =>
                /\ members[id].status = "Dead"
                /\ members[id].heartbeat = call.pre[id].heartbeat
                /\ members[id].info = call.pre[id].info

\* an Alive peer last heard of before now was marked Dead next to another
\* member
C27_Witness ==
    /\ call.op = "mark_dead"
    /\ call.peer.node_id \in DOMAIN call.pre
    /\ call.pre[call.peer.node_id].info.incarnation = call.peer.incarnation
    /\ call.pre[call.peer.node_id].status = "Alive"
    /\ call.pre[call.peer.node_id].heartbeat < now
    /\ members[call.peer.node_id].status = "Dead"
    /\ DOMAIN call.pre # {call.peer.node_id}

\* the entries a harvest at the current time had to remove from the
\* membership it found
HarvestDue ==
    {n \in DOMAIN call.harvest :
        /\ call.harvest[n].status = "Dead"
        /\ now - call.harvest[n].heartbeat > DEFAULT_MEMBER_DEADLINE}

\* the harvest removed the entries due and left the others as they were
HarvestExact ==
    /\ DOMAIN members = (DOMAIN call.harvest) \ HarvestDue
    /\ \A n \in DOMAIN members : members[n] = call.harvest[n]

\* C28: a harvest removes exactly the Dead entries whose heartbeat is older
\* than member_deadline, leaves every other entry unchanged, and when it
\* removed an entry the ring published afterwards holds none of the removed
\* node_ids.
C28_HarvestExactness ==
    "harvest" \in DOMAIN call =>
        /\ HarvestExact
        /\ HarvestDue # {} => RingNodes(ring) \cap HarvestDue = {}

\* ------------------------------------------------------ claims on SpecLoops

\* C29: once the shutdown signal has fired, each of the four gossip loops
\* eventually terminates, also one that is inside a send with retries or
\* waiting for its next tick.
C29_Cancellation ==
    shutdown ~> (\A l \in Loops : tasks[l] \in {"stopped", "cancelled", "panicked"})

\* every loop was left through the shutdown branch, the ping loop inside a
\* send and the others at their ticker
C29_Witness ==
    /\ shutdown
    /\ tasks["ping"] = "cancelled"
    /\ \A l \in Loops \ {"ping"} : tasks[l] = "stopped"

\* C30: before the shutdown signal fires no gossip loop task terminates or
\* aborts, whatever peer failures, Dead marks and harvests occur.
C30_LoopsSurvive ==
    ~shutdown => \A l \in Loops : tasks[l] \in {"running", "sending"}

\* C39: the ping and anti-entropy loops never contact the local node itself,
\* so no failure of their sends sets the local node's own entry to Dead.
C39_NeverContactsSelf ==
    \A l \in SendLoops : \A f \in inflight[l] : f.peer.node_id # current_node.node_id

\* C40: a ping or anti-entropy turn that reads a membership without members
\* neither crashes nor stops its loop: the task keeps ticking (or is left
\* through its shutdown branch).
C40_EmptyMembershipRecovery ==
    [][\A l \in SendLoops :
        (tasks[l] = "running" /\ DOMAIN members = {}) =>
            tasks'[l] \in {"running", "stopped"}]_vars

\* -------------------------------------------------- more claims on SpecRing

\* C38: for the ring built from any set of nodes, any node n and any key,
\* the owner on the ring with n added is the owner on the ring without it or
\* n itself: adding or dropping a node moves no key between two other nodes.
C38_MinimalDisruption ==
    \A n \in NodeIds : \A hash \in HashSlots :
        \/ lookup(add_node(ring, n), hash) = lookup(ring, hash)
        \/ lookup(add_node(ring, n), hash) = {n}

\* a key looked up on a ring of two nodes that a third node would take over,
\* next to a key that it would leave with its owner
C38_Witness ==
    /\ looked.op = "lookup"
    /\ Cardinality(added) = 2
    /\ \E n \in NodeIds \ added :
        /\ lookup(add_node(ring, n), looked.hash) = {n}
        /\ looked.ret # {n}
        /\ \E other \in HashSlots :
            /\ lookup(add_node(ring, n), other) = lookup(ring, other)
            /\ lookup(ring, other) # looked.ret

\* ------------------------------------------------ more claims on SpecMember

\* the entry stored for node id after update_member(first), then
\* update_member(second), on the membership ms
MergedInOrder(ms, first, second, id) ==
    update_member(update_member(ms, first).members, second).members[id]

\* C37: for any two observations a and b of one node_id, update_member(a)
\* then update_member(b) stores the same incarnation, status and heartbeat
\* as update_member(b) then update_member(a).
C37_MergeOrderIndependence ==
    \A a \in MemberState : \A b \in MemberState :
        a.info.node_id = b.info.node_id =>
            LET ab == MergedInOrder(members, a, b, a.info.node_id)
                ba == MergedInOrder(members, b, a, a.info.node_id) IN
            /\ ab.info.incarnation = ba.info.incarnation
            /\ ab.status = ba.status
            /\ ab.heartbeat = ba.heartbeat

\* ------------------------------------------------- more claims on SpecRoute

\* the NodeInfo under which node n runs Proxy::route
RouteInfo(n) == [node_id |-> n, incarnation |-> 0, advertise_addr |-> AddrOf[n]]

\* what node `peer` answers for the key last routed, from the same ring and
\* membership
PeerRoute(peer) == route(ring, members, RouteInfo(peer), routed.hash)

\* the local node and `peer` name the same owner: one of them answers Local
\* and the other its address, or both answer the address of one third node
RouteAgree(mine, theirs, peer) ==
    \/ mine = Local /\ theirs = RemoteAddr(AddrOf[LocalId])
    \/ theirs = Local /\ mine = RemoteAddr(AddrOf[peer])
    \/ /\ mine = theirs
       /\ mine.kind = "RemoteAddr"
       /\ mine.addr \notin {AddrOf[LocalId], AddrOf[peer]}

\* C35 as stated: two nodes that hold the same ring and the same membership
\* statuses agree on the owner of every key.
C35_RoutingAgreement ==
    routed.op = "route" =>
        \A peer \in NodeIds \ {LocalId} : RouteAgree(routed.dest, PeerRoute(peer), peer)

\* C35, amended: two nodes that hold the same ring and the same membership
\* statuses agree on the owner of every key whenever some node on the ring
\* is Alive in the membership; when none is, both answer Local.
C35_RoutingAgreementWhenAlive ==
    routed.op = "route" =>
        \A peer \in NodeIds \ {LocalId} :
            IF RouteAlive # {}
            THEN RouteAgree(routed.dest, PeerRoute(peer), peer)
            ELSE routed.dest = Local /\ PeerRoute(peer) = Local

\* the local node answered the address of node 2, which answers Local, and
\* node 3 answers that address too, while the local node is on the ring and
\* Dead in the membership
C35_Witness ==
    /\ routed.op = "route"
    /\ routed.dest = RemoteAddr(AddrOf[2])
    /\ PeerRoute(2) = Local
    /\ PeerRoute(3) = RemoteAddr(AddrOf[2])
    /\ LocalId \in DOMAIN members
    /\ members[LocalId].status = "Dead"

\* ---------------------------------------------------- claims on SpecForward

\* C36: a client request for a key is handed from node to node at most
\* twice before it ends in a response or an error, also when two nodes each
\* regard the other as the owner of the key.
C36_BoundedForwarding ==
    forward.op = "request" => forward.hops <= 2

\* ---------------------------------------------------- claims on SpecWriters

\* the membership two writers leave when one runs after the other
OneAfterOther(first, second) ==
    run_alone(second, run_alone(first, [members |-> call.members, cur |-> call.cur], now),
              now).members

\* C31: when two writers of the membership (handlers, mark_dead, the
\* harvest) run concurrently, the membership after both have finished
\* reflects both updates: it is what the two leave when run one after the
\* other, in one of the two orders.
C31_NoLostUpdate ==
    (\A w \in Writers : writers[w].pc = "returned") =>
        \/ members = OneAfterOther(writers["w1"].job, writers["w2"].job)
        \/ members = OneAfterOther(writers["w2"].job, writers["w1"].job)

\* ------------------------------------------------------- claims on SpecSync

\* C32: what a reader of the membership gets while a Sync is handled is the
\* membership from before the Sync or the one with every MemberState of the
\* Sync merged and the local node refreshed, never a state in between.
C32_AtomicSyncPublication ==
    (call.op = "membership" /\ writers["sync"].pc # "idle") =>
        \/ call.members = writers["sync"].base
        \/ call.members = sync_merged(writers["sync"].crate, writers["sync"].base, writers["sync"].list,
                                      writers["sync"].cur, now)

\* C32 for the gossip crate alone: a Sync that crate handles is published
\* by its one store.
C32_GossipCrateOnly ==
    (call.op = "membership" /\ writers["sync"].pc # "idle"
        /\ writers["sync"].crate = "gossip") =>
        \/ call.members = writers["sync"].base
        \/ call.members = sync_merged(writers["sync"].crate, writers["sync"].base, writers["sync"].list,
                                      writers["sync"].cur, now)

\* ----------------------------------------------- claims on SpecMessagesFair

\* the local node's own entry is Dead at incarnation i
SelfDeadAt(i) ==
    /\ is_dead(members, LocalId)
    /\ members[LocalId].info.incarnation = i

\* the local node holds an incarnation above i and its entry is Alive at it
SelfDefended(i) ==
    /\ current_node.incarnation > i
    /\ LocalId \in DOMAIN members
    /\ members[LocalId].status = "Alive"
    /\ members[LocalId].info.incarnation = current_node.incarnation

\* C33: when the local node's own entry has become Dead at incarnation i, at
\* or above its own incarnation, through a peer's report, then, messages
\* being handled on and on, the node comes to hold an incarnation above i
\* with its own entry Alive at that incarnation.
C33_SelfDefenseProgress ==
    \A i \in GossipIncarnations : SelfDeadAt(i) ~> SelfDefended(i)

\* ------------------------------------------------------------ SpecCluster
\* Three nodes that know each other; node 3 has crashed for good and its
\* last heartbeat is older than the deadline. Nodes 1 and 2 stay up and run
\* their ping, anti-entropy and harvest loops. A send to a node that is up
\* is answered, so an exchange is one step: the sender's message, the
\* receiver's handle_message, the reply and the sender's handle_message. A
\* node that is up is never held Dead here, so no incarnation advances.

Survivors == {1, 2}
Crashed == 3

\* Membership::into_members().into_values(): the MemberStates in node_id order
into_values(ms) ==
    [i \in 1..Cardinality(DOMAIN ms) |->
        ms[CHOOSE x \in DOMAIN ms : Cardinality({y \in DOMAIN ms : y < x}) = i - 1]]

\* the members a loop may draw and does not skip
drawn(ms) == {p \in DOMAIN ms : ms[p].status # "Dead"}

\* ping(peer) by node n, peer up: the peer handles Ping(n), n handles Ack(peer)
ping_exchange(vs, n, p, t) ==
    CHOOSE after \in
        {[at_peer EXCEPT ![n] = view_of(EmptyRing,
                                       handle_info(at_peer[n].members, RouteInfo(p), t))] :
            at_peer \in {[vs EXCEPT ![p] = view_of(EmptyRing,
                                       handle_info(vs[p].members, RouteInfo(n), t))]}} : TRUE

\* sync(peer) by node n, peer up: the peer handles Sync of n's members and
\* answers with what it stored, n handles that Sync
sync_exchange(vs, n, p, t) ==
    CHOOSE after \in
        {[at_peer EXCEPT ![n] = view_of(EmptyRing,
                                       handle_sync(at_peer[n].members,
                                                   into_values(at_peer[p].members),
                                                   RouteInfo(n), t))] :
            at_peer \in {[vs EXCEPT ![p] = view_of(EmptyRing,
                                       handle_sync(vs[p].members, into_values(vs[n].members),
                                                   RouteInfo(p), t))]}} : TRUE

\* the send to a crashed peer fails on every retry: mark_dead(&peer)
send_failed(vs, n, p) ==
    [vs EXCEPT ![n] = view_of(EmptyRing, mark_dead(vs[n].members, vs[n].members[p].info))]

\* what the cluster's loops leave alone
RestOfCluster ==
    UNCHANGED <<members, call, current_node, ring, seen_inc, vnode_hash, routed,
                server_vars, node_file, boot, tasks, shutdown, memory, disk, cache_op,
                history, inflight, forward, writers>>

InitCluster ==
    /\ now = DEFAULT_MEMBER_DEADLINE + 1
    /\ views = [n \in Survivors |->
                  view_of(EmptyRing, [m \in NodeIds |-> member_state(RouteInfo(m), "Alive", 0)])]
    /\ current_node = RouteInfo(LocalId)
    /\ members = EmptyMembership
    /\ vnode_hash = SampleHash
    /\ ring = EmptyRing
    /\ seen_inc = [n \in GossipIds |-> 0]
    /\ call = NoCall
    /\ routed = NoRoute
    /\ engine = {}
    /\ handled = NoRequest
    /\ pc = [r \in Requests |-> "idle"]
    /\ wait_permit = new_wait_permit
    /\ run_permit = new_run_permit
    /\ arrival = NoRequest
    /\ added = {}
    /\ looked = NoLookup
    /\ node_file = persist(current_node)
    /\ boot = Started
    /\ tasks = [l \in Loops |-> "running"]
    /\ shutdown = FALSE
    /\ memory = EmptyTier
    /\ disk = EmptyTier
    /\ cache_op = NoRequest
    /\ history = NoHistory
    /\ inflight = NoneInFlight
    /\ forward = NoRequest
    /\ writers = NoWriters

\* the clock advances
ClusterTick ==
    /\ now < MaxClock
    /\ now' = now + 1
    /\ UNCHANGED views
    /\ RestOfCluster

\* one turn of node n's ping loop that draws p
PingPeer(n, p) ==
    /\ p \in drawn(views[n].members)
    /\ views' = IF p = Crashed THEN send_failed(views, n, p)
                ELSE ping_exchange(views, n, p, now)
    /\ UNCHANGED now
    /\ RestOfCluster

\* one turn of node n's anti-entropy loop that draws p
SyncPeer(n, p) ==
    /\ p \in drawn(views[n].members)
    /\ views' = IF p = Crashed THEN send_failed(views, n, p)
                ELSE sync_exchange(views, n, p, now)
    /\ UNCHANGED now
    /\ RestOfCluster

\* one turn of node n's harvest loop
HarvestAt(n) ==
    /\ views' = [views EXCEPT ![n] = view_of(EmptyRing,
                    remove_members(views[n].members, dead_members(views[n].members, now)))]
    /\ UNCHANGED now
    /\ RestOfCluster

PingTurn == \E n \in Survivors, p \in NodeIds : PingPeer(n, p)
SyncTurn == \E n \in Survivors, p \in NodeIds : SyncPeer(n, p)
HarvestTurnAt == \E n \in Survivors : HarvestAt(n)

NextCluster ==
    \/ ClusterTick
    \/ PingTurn
    \/ SyncTurn
    \/ HarvestTurnAt

SpecCluster == InitCluster /\ [][NextCluster]_vars

\* the ping and anti-entropy loops take their turns; a node that holds the
\* crashed peer as Alive again and again draws it for a ping in the end, and
\* a node that holds it as Dead again and again harvests it in the end
SpecClusterFair ==
    /\ SpecCluster
    /\ WF_vars(PingTurn) /\ WF_vars(SyncTurn)
    /\ \A n \in Survivors : SF_vars(PingPeer(n, Crashed)) /\ SF_vars(HarvestAt(n))

\* ---------------------------------------------------- claims on SpecCluster

\* node n holds the crashed peer as Dead, or not at all
HeldDeadOrAbsent(n) ==
    \/ Crashed \notin DOMAIN views[n].members
    \/ views[n].members[Crashed].status = "Dead"

\* C34: when a peer has crashed for good and the other nodes stay up and
\* gossip among themselves, then under fair scheduling of their loops every
\* surviving node comes to hold the peer as Dead or absent and never holds
\* it as Alive again.
C34_FailureDetectionConverges ==
    <>[](\A n \in Survivors : HeldDeadOrAbsent(n))

====
